---- MODULE Spec2Model ----
(***************************************************************************)
(* Model of the market-making engine of mm_bot: the order ladder generator *)
(* and margin/skew calculator (orderManager.py), the order-generation loop *)
(* with its cooldown and staleness gates, the price-drift cancellation     *)
(* monitor, and the retry loops of the feeds (price_feeds.py,              *)
(* orderManager.py).                                                       *)
(*                                                                         *)
(* Numbers.  Python floats are modelled by exact integers and rationals:   *)
(*   - a price is an integer number of ticks (10^-price_precision);        *)
(*   - a quantity is an integer number of quantity units; the venue        *)
(*     minimum is MinQty units;                                            *)
(*   - money (margin, notional, pnl) is an integer; an available margin    *)
(*     is carried as the numerator of a fraction over MarginDen =          *)
(*     Leverage * ShareDen, so that free_margin * marginShare and          *)
(*     qty * price / leverage are exact;                                   *)
(*   - a spread or skew is a rational number of percent [num, den].        *)
(* Time is an integer number of seconds; time.time() is `now`.             *)
(***************************************************************************)
EXTENDS Integers, Sequences, FiniteSets, TLC

\* ------------------------------------------------------------------------
\* Settings (settings dict, read-only after start) and venue constants
\* ------------------------------------------------------------------------

\* settings["leverage"]
Leverage == 2
\* settings["marginShare"] = ShareNum / ShareDen
ShareNum == 1
ShareDen == 2
\* get_minimum_quantity(market), in quantity units
MinQty == 2
\* granularity of Decimal.quantize(Decimal(str(minimum))): the exponent of the
\* minimum; the venue's minimums are powers of ten, so it is the minimum itself
QtyStep == 2
\* denominator of the available-margin fractions
MarginDen == Leverage * ShareDen
\* settings["defensiveSkew"]
defensiveSkew == 10
\* settings["order_fill_cooldown"], seconds
order_fill_cooldown == 2
\* settings["mid_price_expiry"], seconds
mid_price_expiry == 1
\* settings["position_data_expiry"], seconds
position_data_expiry == 1
\* settings["order_expiry"], seconds
order_expiry == 1
\* settings["order_frequency"], seconds
order_frequency == 2
\* settings["cancellation_threshold"], percent
cancellation_threshold == 5
\* settings["hubble_position_poll_interval"], seconds
hubble_position_poll_interval == 1
\* max_retries of every retry loop
max_retries == 5
\* initial retry_delay of create_orders, start_trader_positions_feed,
\* subscribe_to_hubble_order_book and start_order_fill_feed
InitialDelay == 2
\* initial retry_delay of subscribe_to_binance_futures_feed
FuturesInitialDelay == 3
\* retries and delay of the hedge executor (Bybit.on_Order_Fill)
hedge_retries == 4
hedge_delay == 1
\* settings["slippage"] of the hedge connector: 0.5 percent, in thousandths
SlippagePerMille == 5

\* ------------------------------------------------------------------------
\* Bounds of the checked instances
\* ------------------------------------------------------------------------

\* configured levels per ladder
MaxLevels == 2
\* time.time() when the process starts (the epoch is far in the past: every
\* timestamp initialised to 0 is older than any configured threshold)
StartTime == 10
\* seconds of operation explored
MaxTime == 2
\* placement batches per run
MaxBatches == 2
\* fill notifications per run
MaxFills == 1
\* monitored batches after which the generation loop is no longer scheduled
MaxMonitors == 1
\* entries per side of an order-book message
MaxBookDepth == 2

Abs(x) == IF x < 0 THEN -x ELSE x

\* float('inf'), the initial best ask
Infinity == 1000000

\* ------------------------------------------------------------------------
\* Arithmetic helpers (exact counterparts of the float operations)
\* ------------------------------------------------------------------------

\* a < n/d   (d # 0)
LtRat(a, n, d) == IF d > 0 THEN a * d < n ELSE a * d > n
\* n/d > a   (d # 0)
GtRat(n, d, a) == IF d > 0 THEN n > a * d ELSE n < a * d

\* round(n/d) of Python 3 (round half to even), d # 0
RoundHalfEven(n, d) ==
    LET nn == IF d > 0 THEN n ELSE -n
        dd == Abs(d)
        q  == nn \div dd
        r  == nn - q * dd
    IN  IF 2 * r < dd THEN q
        ELSE IF 2 * r > dd THEN q + 1
        ELSE IF q % 2 = 0 THEN q ELSE q + 1

\* Decimal(str(n/d)).quantize(Decimal(str(minimum)), rounding=ROUND_DOWN):
\* towards zero, to a multiple of QtyStep
QuantizeDown(n, d) ==
    LET nn == IF d > 0 THEN n ELSE -n
        dd == Abs(d)
    IN  IF nn >= 0 THEN (nn \div (dd * QtyStep)) * QtyStep
        ELSE -((-nn) \div (dd * QtyStep)) * QtyStep

\* ------------------------------------------------------------------------
\* Order ladder generator (orderManager.py, generate_buy_orders,
\* generate_sell_orders, get_qty)
\* ------------------------------------------------------------------------

\* get_qty(level, max_position_size), max_position_size = mn / md
get_qty(level, mn, md) ==
    IF LtRat(level.qty, mn, md) THEN level.qty
    ELSE IF GtRat(mn, md, MinQty) THEN QuantizeDown(mn, md)
    ELSE 0

\* round(mid * (1 - spread), precision), for spread = level.spread/100 + skew
\* with skew = sk.num / sk.den percent: mid * (100*den - (spread*den + num)) / (100*den)
bid_price(base, level, sk) ==
    RoundHalfEven(base * (100 * sk.den - (level.spread * sk.den + sk.num)), 100 * sk.den)

\* round(mid * (1 + spread), precision)
ask_price(base, level, sk) ==
    RoundHalfEven(base * (100 * sk.den + (level.spread * sk.den + sk.num)), 100 * sk.den)

\* rounded_bid_price of one level, with the avoid_crossing shift
rounded_bid_price(c, level) ==
    LET p == bid_price(c.mid_price, level, c.skew)
        best_ask_on_hubble == c.hubble_prices[1]
    IN  IF c.avoid_crossing /\ best_ask_on_hubble # Infinity /\ p >= best_ask_on_hubble
        THEN bid_price(best_ask_on_hubble, level, c.skew)
        ELSE p

\* rounded_ask_price of one level, with the avoid_crossing shift
rounded_ask_price(c, level) ==
    LET p == ask_price(c.mid_price, level, c.skew)
        best_bid_on_hubble == c.hubble_prices[2]
    IN  IF c.avoid_crossing /\ p <= best_bid_on_hubble
        THEN ask_price(best_bid_on_hubble, level, c.skew)
        ELSE p

\* an iteration that charges the margin of a level the hedge check rejects
buy_level_charging_rejected(c, s, i) ==
    LET level == c.order_levels[i]
        price == bid_price(c.mid_price, level, c.skew)
        qty   == get_qty(level, s.am * Leverage, price * MarginDen)
    IN  IF price = 0 \/ qty = 0 THEN s
        ELSE IF c.hedge /\ ~c.approve[i] THEN [s EXCEPT !.am = s.am - qty * price * ShareDen]
        ELSE [s EXCEPT !.am = s.am - qty * price * ShareDen,
                       !.orders = Append(s.orders,
                                         [qty |-> qty, price |-> price, level |-> i])]

\* One iteration of the loop of generate_buy_orders.  s = [orders, am, raised]:
\* the orders so far, the remaining available margin (numerator over MarginDen)
\* and whether the division by a zero price has raised.
buy_level(c, s, i) ==
    LET level == c.order_levels[i]
        price == rounded_bid_price(c, level)
        qty   == get_qty(level, s.am * Leverage, price * MarginDen)
    IN  IF s.raised THEN s
        ELSE IF price = 0 THEN [s EXCEPT !.raised = TRUE]
        ELSE IF c.hedge /\ ~c.approve[i] THEN s
        ELSE IF qty = 0 THEN s
        ELSE [s EXCEPT !.am = s.am - qty * price * ShareDen,
                       !.orders = Append(s.orders,
                                         [qty |-> qty, price |-> price, level |-> i])]

\* One iteration of the loop of generate_sell_orders: qty is negative, and the
\* margin update subtracts qty * price / leverage with that negative qty.
sell_level(c, s, i) ==
    LET level == c.order_levels[i]
        price == rounded_ask_price(c, level)
        qty   == get_qty(level, s.am * Leverage, price * MarginDen) * (-1)
    IN  IF s.raised THEN s
        ELSE IF price = 0 THEN [s EXCEPT !.raised = TRUE]
        ELSE IF c.hedge /\ ~c.approve[i] THEN s
        ELSE IF qty = 0 THEN s
        ELSE [s EXCEPT !.am = s.am - qty * price * ShareDen,
                       !.orders = Append(s.orders,
                                         [qty |-> qty, price |-> price, level |-> i])]

RECURSIVE buy_loop(_, _, _)
buy_loop(c, s, i) ==
    IF i > Len(c.order_levels) THEN s ELSE buy_loop(c, buy_level(c, s, i), i + 1)

RECURSIVE sell_loop(_, _, _)
sell_loop(c, s, i) ==
    IF i > Len(c.order_levels) THEN s ELSE sell_loop(c, sell_level(c, s, i), i + 1)

\* a generator that quotes from a mid price fetched again, one tick later
generate_buy_orders_refetched(c, available_margin) ==
    buy_loop([c EXCEPT !.mid_price = @ + 1],
             [orders |-> <<>>, am |-> available_margin, raised |-> FALSE], 1)

\* generate_buy_orders(available_margin, defensive_skew) in context c
generate_buy_orders(c, available_margin) ==
    buy_loop(c, [orders |-> <<>>, am |-> available_margin, raised |-> FALSE], 1)

\* generate_sell_orders(available_margin, defensive_skew) in context c
generate_sell_orders(c, available_margin) ==
    sell_loop(c, [orders |-> <<>>, am |-> available_margin, raised |-> FALSE], 1)

RECURSIVE SumCost(_)
\* sum of |qty| * price over a list of orders
SumCost(orders) ==
    IF orders = <<>> THEN 0
    ELSE Abs(orders[1].qty) * orders[1].price + SumCost(Tail(orders))

\* ------------------------------------------------------------------------
\* Margin & skew calculator (orderManager.py, get_free_margin_and_defensive_skew)
\* ------------------------------------------------------------------------

RECURSIVE SumField(_, _)
\* sum of float(position[field]) over a list of positions
SumField(positions, field) ==
    IF positions = <<>> THEN 0
    ELSE positions[1][field] + SumField(Tail(positions), field)

RECURSIVE LastOfMarket(_, _)
\* the value of self.market_position after the loop over the positions: the
\* last position of this market, or the value it had before (prev)
LastOfMarket(positions, prev) ==
    IF positions = <<>> THEN prev
    ELSE LET p == positions[Len(positions)]
         IN  IF p.market = "this" THEN p
             ELSE LastOfMarket(SubSeq(positions, 1, Len(positions) - 1), prev)

NoPosition == [market |-> "none", size |-> 0, notionalPosition |-> 0, unrealisedProfit |-> 0]
NoSkew == [num |-> 0, den |-> 1]

\* get_free_margin_and_defensive_skew.  Margins are numerators over MarginDen;
\* fm is free_margin * Leverage.  raised: the division by free_margin = 0.
get_free_margin_and_defensive_skew(trader_data, market_position) ==
    LET total_notional == SumField(trader_data.positions, "notionalPosition")
        u_pnl == SumField(trader_data.positions, "unrealisedProfit")
        mp == LastOfMarket(trader_data.positions, market_position)
        fm == trader_data.margin * Leverage - total_notional + u_pnl * Leverage
              - trader_data.reservedMargin * Leverage
        alloc == fm * ShareNum
        with_position == (fm + mp.notionalPosition) * ShareNum
        skew == [num |-> mp.notionalPosition * 10 * defensiveSkew, den |-> fm]
        long == mp # NoPosition /\ mp.size > 0
        short == mp # NoPosition /\ mp.size < 0
    IN  [raised |-> (long \/ short) /\ fm = 0,
         market_position |-> mp,
         margin_ask |-> IF long THEN with_position ELSE alloc,
         margin_bid |-> IF short THEN with_position ELSE alloc,
         skew_ask |-> IF short /\ fm # 0 THEN skew ELSE NoSkew,
         skew_bid |-> IF long /\ fm # 0 THEN skew ELSE NoSkew]

\* ------------------------------------------------------------------------
\* State
\* ------------------------------------------------------------------------

VARIABLES
    ladder,    \* one run of the ladder generator on its own: inputs and result
    now,       \* time.time()
    fault,     \* unhandled_exception_encountered (asyncio.Event)
    settings,  \* the toggles of the settings dict: hedge_mode, avoid_crossing,
               \* cancel_orders_on_price_change, order_levels
    feed,      \* the PriceFeed object's fields
    events,    \* the feed readiness asyncio.Events
    om,        \* the OrderManager object's fields
    loops,     \* the local variables and position of every retry loop
    monitors,  \* the monitor_cancellation tasks, one per monitored batch
    fill,      \* the order_fill_callback in progress (its hedge call)
    hist,      \* history: the backoff sleeps of every loop since its last success,
               \* the branch the last generation cycle took (cycle), the mid
               \* price the last ladder was generated from, the recorded fill time
               \* at the last placement call, counts of batches and fills
    env        \* the environment of the run: which loop's unit of work may fail

sysvars == <<now, fault, settings, feed, events, om, loops, monitors, fill, hist>>
vars == <<ladder, env, now, fault, settings, feed, events, om, loops, monitors, fill, hist>>

LoopNames == {"hubble", "futures", "positions", "fills", "orders"}

\* every task with a retry loop: the loops the system starts and the trade
\* stream feed (start_binance_spot_feed)
TaskNames == LoopNames \cup {"spot"}

\* The loops that may be suspended in a backoff sleep, their initial delays
LoopInitialDelay(l) ==
    IF l \in {"futures", "spot"} THEN FuturesInitialDelay ELSE InitialDelay

NoLadder == [phase |-> "off"]

PerformanceZero ==
    [cumulative_trade_volume |-> 0, trade_volume_in_period |-> 0,
     orders_attempted |-> 0, orders_placed |-> 0, orders_filled |-> 0,
     orders_failed |-> 0, orders_hedged |-> 0, hedge_spread_pnl |-> 0]

\* The state after OrderManager.__init__, PriceFeed.__init__ and the creation
\* of the tasks, before any task has run (orderManager.py 23-60, price_feeds.py 15-25)
SysInit(st) ==
    /\ now = StartTime
    /\ fault = FALSE
    /\ settings = st
    /\ feed = [mid_price |-> 0, mid_price_last_updated_at |-> 0,
               hubble_prices |-> <<Infinity, 0>>,
               is_hubble_price_feed_stopped |-> TRUE,
               binance_futures_feed_stopped |-> TRUE,
               binance_spot_feed_stopped |-> TRUE]
    /\ events = [mid_price |-> FALSE, hubble_price |-> FALSE, hedge_client |-> FALSE]
    /\ om = [mid_price |-> 0, mid_price_last_updated_at |-> 0,
             trader_data |-> [margin |-> 0, reservedMargin |-> 0, positions |-> <<>>],
             trader_data_last_updated_at |-> 0,
             market_position |-> NoPosition,
             is_order_fill_active |-> FALSE,
             is_trader_position_feed_active |-> FALSE,
             last_order_fill_time |-> 0,
             order_data |-> {},
             performance_data |-> PerformanceZero,
             signed_orders |-> <<>>,
             next_order_id |-> 1]
    /\ loops = [l \in TaskNames |->
                  [pc |-> "start", attempt_count |-> 0,
                   retry_delay |-> LoopInitialDelay(l), sleep |-> 0]]
    /\ monitors = <<>>
    /\ fill = [pc |-> "idle", i |-> 0, direction |-> 0, amount |-> 0, price |-> 0,
               size |-> 0, at |-> 0, sleep |-> 0]
    /\ hist = [retry |-> [l \in TaskNames |-> [sleeps |-> <<>>, ok |-> FALSE]],
               cycle |-> "none", gen_mid |-> 0, last_fill_at_call |-> 0,
               batches |-> 0, fills |-> 0]

\* ------------------------------------------------------------------------
\* The retry policy shared by the loops' except blocks
\* ------------------------------------------------------------------------

\* a budget test that allows one more retry
budget_exhausted_late(attempt_count) == attempt_count > max_retries

\* a backoff that grows by the initial delay instead of doubling
next_delay_linear(retry_delay) == retry_delay + InitialDelay

\* `if attempt_count >= max_retries` of an except block
budget_exhausted(attempt_count) == attempt_count >= max_retries

\* `retry_delay *= 2` after the backoff sleep
next_delay(retry_delay) == retry_delay * 2

\* an except block without the `break`: on an exhausted budget the loop goes
\* straight back to its next attempt
on_failure_no_break(lp) ==
    IF budget_exhausted(lp.attempt_count)
    THEN [lp EXCEPT !.pc = "start"]
    ELSE [lp EXCEPT !.attempt_count = lp.attempt_count + 1,
                    !.pc = "backoff", !.sleep = lp.retry_delay]

\* The except block of a retry loop, after its feed flag has been handled:
\* give up (the caller sets the fault signal), or count the attempt and sleep
\* retry_delay.
on_failure(lp) ==
    IF budget_exhausted(lp.attempt_count)
    THEN [lp EXCEPT !.pc = "exhausted"]
    ELSE [lp EXCEPT !.attempt_count = lp.attempt_count + 1,
                    !.pc = "backoff", !.sleep = lp.retry_delay]

\* The loop's local variables when the backoff sleep returns and the loop
\* starts its next attempt
after_backoff(lp) ==
    IF lp.pc = "backoff" THEN [lp EXCEPT !.retry_delay = next_delay(lp.retry_delay)] ELSE lp

\* history: a backoff sleep, or a success, of loop l
LogFailure(l, lp) ==
    [hist.retry EXCEPT ![l].sleeps =
        IF lp.pc = "backoff" THEN Append(@, lp.sleep) ELSE @]
LogSuccess(l) == [hist.retry EXCEPT ![l] = [sleeps |-> <<>>, ok |-> TRUE]]

\* asyncio.Event.set(): a create_orders task waiting on the event is released
\* (its wait() returns even if the event is cleared again before it runs)
release(lp, waiting, released) ==
    IF lp.pc = waiting THEN [lp EXCEPT !.pc = released] ELSE lp

\* ------------------------------------------------------------------------
\* Time
\* ------------------------------------------------------------------------

\* One second passes.  asyncio.sleep(d) returns no earlier than d later; the
\* model records d in the loop's `sleep` field and lets any task run late.
Tick ==
    /\ now < StartTime + MaxTime
    /\ now' = now + 1
    /\ UNCHANGED <<ladder, env, fault, settings, feed, events, om, loops, monitors, fill, hist>>

\* ------------------------------------------------------------------------
\* Mid-price feed (price_feeds.py, subscribe_to_binance_futures_feed)
\* ------------------------------------------------------------------------

\* round((float(data["b"]) + float(data["a"])) / 2, 5); the ticks offered to
\* the model have an even b + a, so the midpoint is a whole number of ticks
\* and the rounding to 5 decimals leaves it unchanged
futures_mid(b, a) == (b + a) \div 2

\* Condition.notify_all(): every monitor waiting on the condition is woken
\* (history: a monitor that has already cancelled notes that a later
\* notification found it stopped)
notify_all(ms) ==
    [k \in DOMAIN ms |->
        IF ms[k].pc = "waiting" THEN [ms[k] EXCEPT !.pc = "woken"]
        ELSE IF ms[k].pc = "done" /\ ms[k].cancels > 0
        THEN [ms[k] EXCEPT !.notified_after_cancel = TRUE]
        ELSE ms[k]]

\* websockets.connect succeeds: the readiness event is set if the feed was
\* marked stopped, the retry variables are reset
\* a connection that clears the fault signal
FuturesConnectClearingFault ==
    LET lp == after_backoff(loops["futures"]) IN
    /\ lp.pc \in {"start", "backoff"}
    /\ events' = [events EXCEPT !.mid_price =
                    IF feed.binance_futures_feed_stopped THEN TRUE ELSE @]
    /\ feed' = [feed EXCEPT !.binance_futures_feed_stopped = FALSE]
    /\ loops' = [loops EXCEPT
                   !["futures"] = [lp EXCEPT !.pc = "connected", !.attempt_count = 0,
                                             !.retry_delay = FuturesInitialDelay],
                   !["orders"] = IF feed.binance_futures_feed_stopped
                                 THEN release(@, "wait_mid", "released_mid") ELSE @]
    /\ hist' = [hist EXCEPT !.retry = LogSuccess("futures")]
    /\ fault' = FALSE
    /\ UNCHANGED <<ladder, env, now, settings, om, monitors, fill>>

FuturesConnect ==
    LET lp == after_backoff(loops["futures"]) IN
    /\ lp.pc \in {"start", "backoff"}
    /\ events' = [events EXCEPT !.mid_price =
                    IF feed.binance_futures_feed_stopped THEN TRUE ELSE @]
    /\ feed' = [feed EXCEPT !.binance_futures_feed_stopped = FALSE]
    /\ loops' = [loops EXCEPT
                   !["futures"] = [lp EXCEPT !.pc = "connected", !.attempt_count = 0,
                                             !.retry_delay = FuturesInitialDelay],
                   !["orders"] = IF feed.binance_futures_feed_stopped
                                 THEN release(@, "wait_mid", "released_mid") ELSE @]
    /\ hist' = [hist EXCEPT !.retry = LogSuccess("futures")]
    /\ UNCHANGED <<ladder, env, now, fault, settings, om, monitors, fill>>

\* A bookTicker message (b, a, T = now) is received on the open connection
FuturesMessage(b, a) ==
    /\ loops["futures"].pc = "connected"
    /\ feed' = [feed EXCEPT !.mid_price = futures_mid(b, a),
                            !.mid_price_last_updated_at = now]
    /\ monitors' = notify_all(monitors)
    /\ UNCHANGED <<ladder, env, now, fault, settings, events, om, loops, fill, hist>>

\* The connection attempt or the open connection raises
FuturesFail ==
    LET lp == on_failure(after_backoff(loops["futures"])) IN
    /\ loops["futures"].pc \in {"start", "backoff", "connected"}
    /\ loops' = [loops EXCEPT !["futures"] = lp]
    /\ IF lp.pc = "exhausted"
       THEN /\ fault' = TRUE
            /\ UNCHANGED <<events, feed>>
       ELSE /\ events' = [events EXCEPT !.mid_price = FALSE]
            /\ feed' = [feed EXCEPT !.binance_futures_feed_stopped = TRUE]
            /\ UNCHANGED fault
    /\ hist' = [hist EXCEPT !.retry = LogFailure("futures", lp)]
    /\ UNCHANGED <<ladder, env, now, settings, om, monitors, fill>>

\* ------------------------------------------------------------------------
\* Trade stream feed (price_feeds.py, start_binance_spot_feed)
\* ------------------------------------------------------------------------

\* A trade message with price `price` is received.  The readiness event is set
\* if the feed was marked stopped and the mid price is stored; the timestamp
\* is not touched.  mid_price_condition.notify_all() is then called without
\* the condition's lock: in every state of this model the lock is free (a
\* monitor holds it only inside the step that wakes it), so the call raises
\* RuntimeError and the except block of the loop runs.  A task released by the
\* event's set() stays released when the except block clears the event.
SpotMessage(price) ==
    LET lp == on_failure(after_backoff(loops["spot"]))
        was_stopped == feed.binance_spot_feed_stopped
    IN
    /\ loops["spot"].pc \in {"start", "backoff"}
    /\ loops' = [loops EXCEPT
                   !["spot"] = lp,
                   !["orders"] = IF was_stopped
                                 THEN release(@, "wait_mid", "released_mid") ELSE @]
    /\ IF lp.pc = "exhausted"
       THEN /\ fault' = TRUE
            /\ events' = [events EXCEPT !.mid_price = IF was_stopped THEN TRUE ELSE @]
            /\ feed' = [feed EXCEPT !.mid_price = price,
                                    !.binance_spot_feed_stopped = FALSE]
       ELSE /\ events' = [events EXCEPT !.mid_price = FALSE]
            /\ feed' = [feed EXCEPT !.mid_price = price,
                                    !.binance_spot_feed_stopped = TRUE]
            /\ UNCHANGED fault
    /\ hist' = [hist EXCEPT !.retry = LogFailure("spot", lp)]
    /\ UNCHANGED <<ladder, env, now, settings, om, monitors, fill>>

\* tscm.recv() raises
SpotRecvFail ==
    LET lp == on_failure(after_backoff(loops["spot"])) IN
    /\ loops["spot"].pc \in {"start", "backoff"}
    /\ loops' = [loops EXCEPT !["spot"] = lp]
    /\ IF lp.pc = "exhausted"
       THEN /\ fault' = TRUE
            /\ UNCHANGED <<events, feed>>
       ELSE /\ events' = [events EXCEPT !.mid_price = FALSE]
            /\ feed' = [feed EXCEPT !.binance_spot_feed_stopped = TRUE]
            /\ UNCHANGED fault
    /\ hist' = [hist EXCEPT !.retry = LogFailure("spot", lp)]
    /\ UNCHANGED <<ladder, env, now, settings, om, monitors, fill>>

\* ------------------------------------------------------------------------
\* Maker order-book feed (price_feeds.py, subscribe_to_hubble_order_book)
\* ------------------------------------------------------------------------

\* the prices of the entries [price, size] with a non-zero size
NonZeroPrices(entries) ==
    {entries[k][1] : k \in {j \in DOMAIN entries : entries[j][2] # 0}}
SetMax(S) == CHOOSE x \in S : \A y \in S : y <= x
SetMin(S) == CHOOSE x \in S : \A y \in S : x <= y

\* The body of `callback` on hubble_prices = <<best_ask, best_bid>>.  A side
\* that is None and a side that is an empty list both leave the price alone.
hubble_callback_prices(prices, msg) ==
    LET bids == NonZeroPrices(msg.bids)
        asks == NonZeroPrices(msg.asks)
        best_bid == IF bids # {} /\ SetMax(bids) > prices[2] THEN SetMax(bids) ELSE prices[2]
        best_ask == IF asks # {} /\ SetMin(asks) < prices[1] THEN msg.asks[1][1] ELSE prices[1]
    IN  <<best_ask, best_bid>>

\* An order-book message is delivered to `callback`.  Its assignments to
\* attempt_count and retry_delay create locals of the callback: the loop's
\* variables are not changed.
HubbleCallback(msg) ==
    /\ loops["hubble"].pc = "start"
    /\ events' = [events EXCEPT !.hubble_price =
                    IF feed.is_hubble_price_feed_stopped THEN TRUE ELSE @]
    /\ feed' = [feed EXCEPT !.is_hubble_price_feed_stopped = FALSE,
                            !.hubble_prices = hubble_callback_prices(@, msg)]
    /\ loops' = [loops EXCEPT
                   !["orders"] = IF feed.is_hubble_price_feed_stopped
                                 THEN release(@, "wait_hubble", "released_hubble") ELSE @]
    /\ hist' = [hist EXCEPT !.retry = LogSuccess("hubble")]
    /\ UNCHANGED <<ladder, env, now, fault, settings, om, monitors, fill>>

\* The subscription raises
HubbleFail ==
    LET lp == on_failure(loops["hubble"]) IN
    /\ loops["hubble"].pc = "start"
    /\ loops' = [loops EXCEPT !["hubble"] = lp]
    /\ IF lp.pc = "exhausted"
       THEN /\ fault' = TRUE
            /\ UNCHANGED <<events, feed>>
       ELSE /\ events' = [events EXCEPT !.hubble_price = FALSE]
            /\ feed' = [feed EXCEPT !.is_hubble_price_feed_stopped = TRUE]
            /\ UNCHANGED fault
    /\ hist' = [hist EXCEPT !.retry = LogFailure("hubble", lp)]
    /\ UNCHANGED <<ladder, env, now, settings, om, monitors, fill>>

\* The backoff sleep of the order-book loop returns and it subscribes again
HubbleResubscribe ==
    /\ loops["hubble"].pc = "backoff"
    /\ loops' = [loops EXCEPT !["hubble"] = [after_backoff(@) EXCEPT !.pc = "start"]]
    /\ UNCHANGED <<ladder, env, now, fault, settings, feed, events, om, monitors, fill, hist>>

\* ------------------------------------------------------------------------
\* Position poll (orderManager.py, start_trader_positions_feed)
\* ------------------------------------------------------------------------

\* get_margin_and_positions returns snapshot `data`
PositionsPollOk(data) ==
    LET lp == after_backoff(loops["positions"]) IN
    /\ lp.pc \in {"start", "sleeping", "backoff"}
    /\ om' = [om EXCEPT !.trader_data = data,
                        !.is_trader_position_feed_active = TRUE,
                        !.trader_data_last_updated_at = now]
    /\ loops' = [loops EXCEPT
                   !["positions"] = [lp EXCEPT !.pc = "sleeping", !.attempt_count = 0,
                                               !.retry_delay = InitialDelay]]
    /\ hist' = [hist EXCEPT !.retry = LogSuccess("positions")]
    /\ UNCHANGED <<ladder, env, now, fault, settings, feed, events, monitors, fill>>

\* get_margin_and_positions raises
PositionsPollFail ==
    LET lp == on_failure(after_backoff(loops["positions"])) IN
    /\ loops["positions"].pc \in {"start", "sleeping", "backoff"}
    /\ om' = [om EXCEPT !.is_trader_position_feed_active = FALSE]
    /\ loops' = [loops EXCEPT !["positions"] = lp]
    /\ fault' = (fault \/ lp.pc = "exhausted")
    /\ hist' = [hist EXCEPT !.retry = LogFailure("positions", lp)]
    /\ UNCHANGED <<ladder, env, now, settings, feed, events, monitors, fill>>

\* ------------------------------------------------------------------------
\* Fill feed (orderManager.py, start_order_fill_feed)
\* ------------------------------------------------------------------------

\* The top of the loop: the flag is raised and the subscription starts
FillFeedSubscribe ==
    LET lp == after_backoff(loops["fills"]) IN
    /\ lp.pc \in {"start", "backoff"}
    /\ om' = [om EXCEPT !.is_order_fill_active = TRUE]
    /\ loops' = [loops EXCEPT !["fills"] = [lp EXCEPT !.pc = "subscribed"]]
    /\ UNCHANGED <<ladder, env, now, fault, settings, feed, events, monitors, fill, hist>>

\* subscribe_to_trader_updates returns: the retry variables are reset and the
\* loop subscribes again
FillFeedReturn ==
    /\ loops["fills"].pc = "subscribed"
    /\ fill.pc = "idle"
    /\ om' = [om EXCEPT !.is_order_fill_active = TRUE]
    /\ loops' = [loops EXCEPT !["fills"] = [@ EXCEPT !.attempt_count = 0,
                                                     !.retry_delay = InitialDelay]]
    /\ hist' = [hist EXCEPT !.retry = LogSuccess("fills")]
    /\ UNCHANGED <<ladder, env, now, fault, settings, feed, events, monitors, fill>>

\* subscribe_to_trader_updates raises websockets.ConnectionClosed
FillFeedConnectionClosed ==
    LET lp == on_failure(loops["fills"]) IN
    /\ loops["fills"].pc = "subscribed"
    /\ fill.pc = "idle"
    /\ om' = [om EXCEPT !.is_order_fill_active = FALSE]
    /\ loops' = [loops EXCEPT !["fills"] = lp]
    /\ fault' = (fault \/ lp.pc = "exhausted")
    /\ hist' = [hist EXCEPT !.retry = LogFailure("fills", lp)]
    /\ UNCHANGED <<ladder, env, now, settings, feed, events, monitors, fill>>

\* subscribe_to_trader_updates raises any other exception
FillFeedError ==
    /\ loops["fills"].pc = "subscribed"
    /\ fill.pc = "idle"
    /\ om' = [om EXCEPT !.is_order_fill_active = FALSE]
    /\ loops' = [loops EXCEPT !["fills"].pc = "stopped"]
    /\ fault' = TRUE
    /\ UNCHANGED <<ladder, env, now, settings, feed, events, monitors, fill, hist>>

\* ------------------------------------------------------------------------
\* Hedge venue account poll (connectors/bybit.py, update_user_state)
\* ------------------------------------------------------------------------

\* The position and wallet requests succeed
HedgeStateOk ==
    /\ settings.hedge_mode
    /\ events' = [events EXCEPT !.hedge_client = TRUE]
    /\ loops' = [loops EXCEPT
                   !["orders"] = IF ~events.hedge_client
                                 THEN release(@, "wait_hedge", "released_hedge") ELSE @]
    /\ UNCHANGED <<ladder, env, now, fault, settings, feed, om, monitors, fill, hist>>

\* A request raises, or the symbol does not match
HedgeStateFail ==
    /\ settings.hedge_mode
    /\ fault' = TRUE
    /\ events' = [events EXCEPT !.hedge_client = FALSE]
    /\ UNCHANGED <<ladder, env, now, settings, feed, om, loops, monitors, fill, hist>>

\* ------------------------------------------------------------------------
\* Order generation loop (orderManager.py, create_orders, place_orders)
\* ------------------------------------------------------------------------

\* a cooldown test that lets the last second of the cooldown through
in_cooldown_short(t, last_order_fill_time) ==
    t - last_order_fill_time < order_fill_cooldown - 1

\* a staleness test that looks at the mid price only
is_stale_data_mid_only(t, mid_price_update_time, price_expiry, position_last_update_time, position_expiry) ==
    t - mid_price_update_time > price_expiry

\* time.time() - self.last_order_fill_time < settings["order_fill_cooldown"]
in_cooldown(t, last_order_fill_time) == t - last_order_fill_time < order_fill_cooldown

\* is_stale_data(mid_price_update_time, price_expiry, position_last_update_time,
\* position_expiry) at time t
is_stale_data(t, mid_price_update_time, price_expiry, position_last_update_time, position_expiry) ==
    \/ t - mid_price_update_time > price_expiry
    \/ t - position_last_update_time > position_expiry

\* wait_until_next_order: the computed sleep
\* an activity check that looks at the fill feed only
feeds_inactive_fill_only(o) == ~o.is_order_fill_active

\* self.is_order_fill_active is False or self.is_trader_position_feed_active is False
feeds_inactive(o) == ~o.is_order_fill_active \/ ~o.is_trader_position_feed_active

next_run(t) ==
    LET d == order_frequency - (t % order_frequency)
    IN  IF d < 0 THEN d + order_frequency ELSE d

\* The three Event.wait() calls at the top of a cycle, entered at the wait the
\* task has reached: the first event found cleared suspends the task; a wait
\* on a set event returns without suspending.
gate(pc) ==
    LET stage == CASE pc = "released_mid" -> 2
                   [] pc = "released_hubble" -> 3
                   [] pc = "released_hedge" -> 4
                   [] OTHER -> 1
    IN  IF stage <= 1 /\ ~events.mid_price THEN "wait_mid"
        ELSE IF stage <= 2 /\ ~events.hubble_price THEN "wait_hubble"
        ELSE IF stage <= 3 /\ settings.hedge_mode /\ ~events.hedge_client THEN "wait_hedge"
        ELSE "pass"

OrdersRunnable ==
    {"start", "sleep5", "sleep_next", "backoff",
     "released_mid", "released_hubble", "released_hedge"}

\* The except block of create_orders: the fault signal is set on every
\* caught exception
orders_except(lp) == on_failure(lp)

\* One run of the create_orders task from the point where it was suspended to
\* its next suspension: the gates, the feed-activity check, the cooldown check,
\* the staleness check, margin and ladder, and the submission of the batch.
\* approve: the answers of hedge_client.can_open_position per side and level.
CreateOrdersRun(approve) ==
    LET lp0 == after_backoff(loops["orders"])
        lp  == [lp0 EXCEPT !.sleep = 0]
        g   == gate(lp.pc)
        inactive == feeds_inactive(om)
        cooling  == in_cooldown(now, om.last_order_fill_time)
        mid == feed.mid_price
        mu  == feed.mid_price_last_updated_at
        stale == is_stale_data(now, mu, mid_price_expiry,
                               om.trader_data_last_updated_at, position_data_expiry)
        fm  == get_free_margin_and_defensive_skew(om.trader_data, om.market_position)
        c   == [order_levels |-> settings.order_levels, mid_price |-> mid,
                skew |-> NoSkew, hubble_prices |-> feed.hubble_prices,
                avoid_crossing |-> settings.avoid_crossing,
                hedge |-> settings.hedge_mode, approve |-> <<>>]
        buys  == generate_buy_orders(
                    [c EXCEPT !.skew = fm.skew_bid, !.approve = approve.buy], fm.margin_bid)
        sells == generate_sell_orders(
                    [c EXCEPT !.skew = fm.skew_ask, !.approve = approve.sell], fm.margin_ask)
        raised == fm.raised \/ buys.raised \/ sells.raised
        signed_orders == IF raised THEN <<>> ELSE buys.orders \o sells.orders
        out == IF g # "pass" THEN g
               ELSE IF inactive THEN "sleep5"
               ELSE IF cooling \/ stale THEN "sleep_next"
               ELSE IF raised THEN "except"
               ELSE IF signed_orders = <<>> THEN "sleep_next"
               ELSE "placing"
        generated == g = "pass" /\ ~inactive /\ ~cooling /\ ~stale
        failed == orders_except(lp)
    IN
    /\ loops["orders"].pc \in OrdersRunnable
    /\ out = "placing" => hist.batches < MaxBatches
    /\ loops' = [loops EXCEPT !["orders"] =
                   CASE out = "except" -> failed
                     [] out = "sleep_next" /\ generated ->
                            [lp EXCEPT !.pc = out, !.attempt_count = 0,
                                       !.retry_delay = InitialDelay]
                     [] OTHER -> [lp EXCEPT !.pc = out]]
    /\ om' = IF g = "pass" /\ ~inactive /\ ~cooling
             THEN [om EXCEPT !.mid_price = mid, !.mid_price_last_updated_at = mu,
                             !.market_position = IF stale THEN @ ELSE fm.market_position,
                             !.signed_orders = IF out = "placing" THEN signed_orders ELSE <<>>]
             ELSE om
    /\ fault' = (fault \/ out = "except")
    /\ hist' = IF g # "pass" THEN hist
               ELSE [hist EXCEPT
                       !.cycle = IF inactive THEN "inactive"
                                 ELSE IF cooling THEN "cooldown"
                                 ELSE IF stale THEN "stale"
                                 ELSE IF raised THEN "raised"
                                 ELSE IF out = "placing" THEN "placed" ELSE "empty",
                       !.gen_mid = IF generated THEN mid ELSE @,
                       !.last_fill_at_call =
                           IF out = "placing" THEN om.last_order_fill_time ELSE @,
                       !.retry = IF out = "except" THEN LogFailure("orders", failed)
                                 ELSE IF out = "sleep_next" /\ generated
                                      THEN LogSuccess("orders") ELSE @]
    /\ UNCHANGED <<ladder, env, now, settings, feed, events, monitors, fill>>

\* cachetools.TTLCache(maxsize=128, ttl=order_expiry + 2): an entry inserted at
\* time e.t is visible while t < e.t + ttl
order_ttl == order_expiry + 2
live(entries, t) == {e \in entries : t < e.t + order_ttl}

\* maxsize of the TTLCache that holds order_data
maxsize == 128

\* a table that drops the batch when it is stored
cache_set_all_dropped(entries, placed, t) == live(entries, t)

\* self.order_data[order_id] = order for every order of `placed`, in order, at
\* time t.  Each insertion drops the expired entries and then, while the cache
\* is full, the entry inserted first (TTLCache.popitem); order ids are handed
\* out in insertion order, so what is left after the batch is the maxsize
\* entries with the highest ids among the live and the new ones
cache_set_all(entries, placed, t) ==
    LET all == live(entries, t) \cup {placed[k] : k \in 1..Len(placed)}
    IN  IF placed = <<>> THEN entries
        ELSE {e \in all : Cardinality({f \in all : f.id > e.id}) < maxsize}

\* a lookup that takes any tracked order for the one asked for
order_data_get_any(entries, id, t) == live(entries, t)

\* self.order_data.get(order_id, None): the set of live entries of that id
order_data_get(entries, id, t) == {e \in live(entries, t) : e.id = id}

\* a drift test that measures the move against the updated price
drift_exceeds_of_updated(updated_mid_price, mid_price) ==
    Abs((updated_mid_price - mid_price) * 100) >= cancellation_threshold * updated_mid_price

\* the drift test of monitor_cancellation:
\* abs((updated_mid_price - mid_price) * 100 / mid_price) >= cancellation_threshold
drift_exceeds(updated_mid_price, mid_price) ==
    Abs((updated_mid_price - mid_price) * 100) >= cancellation_threshold * mid_price

\* a monitor for every batch when cancellation is enabled
starts_monitor_for_any_batch(st, ok) == st.cancel_orders_on_price_change

\* settings["cancel_orders_on_price_change"] and len(successful_orders) > 0
starts_monitor(st, ok) == st.cancel_orders_on_price_change /\ ok # {}

\* counters that leave the rejected orders out
record_results_placed_only(pd, n, placed) ==
    [pd EXCEPT !.orders_attempted = @ + n, !.orders_placed = @ + placed]

\* the counters of place_orders for a batch of n results of which `placed`
\* succeeded: attempted by len(placed_orders), then placed or failed per result
record_results(pd, n, placed) ==
    [pd EXCEPT !.orders_attempted = @ + n,
               !.orders_placed = @ + placed,
               !.orders_failed = @ + (n - placed)]

\* One pass of the loop of save_performance: the row is written and the
\* counters are reset, the cumulative volume carried over
SavePerformance ==
    LET reset == [PerformanceZero EXCEPT !.cumulative_trade_volume =
                                            om.performance_data.cumulative_trade_volume]
    IN  /\ om.performance_data # reset
        /\ om' = [om EXCEPT !.performance_data = reset]
        /\ UNCHANGED <<ladder, env, now, fault, settings, feed, events, loops, monitors, fill, hist>>

\* place_signed_orders returns one result per order; results[k] is its success.
\* Counters, the tracking table, the cancellation monitor, then the end of the
\* cycle: the retry variables are reset and the task sleeps to the next cycle.
PlaceOrdersReturn(results) ==
    LET orders == om.signed_orders
        n == Len(orders)
        ok == {k \in 1..n : results[k]}
        id(k) == om.next_order_id + k - 1
        placed == [k \in 1..n |-> [id |-> id(k), qty |-> orders[k].qty,
                                   price |-> orders[k].price, t |-> now]]
        successful_orders == SelectSeq(placed, LAMBDA e : results[e.id - om.next_order_id + 1])
        pd == om.performance_data
        monitor == [orders |-> {id(k) : k \in ok}, mid_price |-> om.mid_price,
                    expiry_time |-> now + order_expiry, pc |-> "created",
                    cancels |-> 0, gen_mid |-> hist.gen_mid,
                    notified_after_cancel |-> FALSE]
    IN
    /\ loops["orders"].pc = "placing"
    /\ DOMAIN results = 1..n
    /\ om' = [om EXCEPT
                !.performance_data = record_results(pd, n, Cardinality(ok)),
                !.order_data = cache_set_all(@, successful_orders, now),
                !.signed_orders = <<>>,
                !.next_order_id = @ + n]
    /\ monitors' = IF starts_monitor(settings, ok)
                   THEN Append(monitors, monitor) ELSE monitors
    /\ loops' = [loops EXCEPT !["orders"] =
                   [@ EXCEPT !.pc = "sleep_next",
                             !.attempt_count = 0, !.retry_delay = InitialDelay]]
    /\ hist' = [hist EXCEPT !.retry = LogSuccess("orders"), !.batches = @ + 1]
    /\ UNCHANGED <<ladder, env, now, fault, settings, feed, events, fill>>

\* place_signed_orders raises: place_orders re-raises into the except block
\* of create_orders
PlaceOrdersRaise ==
    LET failed == orders_except(loops["orders"]) IN
    /\ loops["orders"].pc = "placing"
    /\ loops' = [loops EXCEPT !["orders"] = failed]
    /\ om' = [om EXCEPT !.signed_orders = <<>>]
    /\ fault' = TRUE
    /\ hist' = [hist EXCEPT !.retry = LogFailure("orders", failed)]
    /\ UNCHANGED <<ladder, env, now, settings, feed, events, monitors, fill>>

\* ------------------------------------------------------------------------
\* Cancellation monitor (orderManager.py, monitor_cancellation)
\* ------------------------------------------------------------------------

\* `while time.time() < expiry_time:` then the wait on the condition
monitor_loop_head(m, t) ==
    IF t < m.expiry_time THEN [m EXCEPT !.pc = "waiting"] ELSE [m EXCEPT !.pc = "done"]

\* a monitor that cancels and goes back to the head of its loop
monitor_woken_no_break(m, updated_mid_price, t) ==
    IF m.mid_price = 0 THEN [m EXCEPT !.pc = "done"]
    ELSE IF drift_exceeds(updated_mid_price, m.mid_price)
    THEN monitor_loop_head([m EXCEPT !.cancels = @ + 1], t)
    ELSE monitor_loop_head(m, t)

\* The monitor after its wait() has returned at time t with the aggregator's
\* mid price updated_mid_price: cancel once and stop, or loop
monitor_woken(m, updated_mid_price, t) ==
    IF m.mid_price = 0 THEN [m EXCEPT !.pc = "done"]
    ELSE IF drift_exceeds(updated_mid_price, m.mid_price)
    THEN [m EXCEPT !.pc = "done", !.cancels = @ + 1]
    ELSE monitor_loop_head(m, t)

\* The monitor task of batch k runs for the first time
MonitorStart(k) ==
    /\ k \in DOMAIN monitors
    /\ monitors[k].pc = "created"
    /\ monitors' = [monitors EXCEPT ![k] = monitor_loop_head(@, now)]
    /\ UNCHANGED <<ladder, env, now, fault, settings, feed, events, om, loops, fill, hist>>

\* The monitor task of batch k runs after a notification
MonitorWake(k) ==
    /\ k \in DOMAIN monitors
    /\ monitors[k].pc = "woken"
    /\ monitors' = [monitors EXCEPT ![k] = monitor_woken(@, feed.mid_price, now)]
    /\ UNCHANGED <<ladder, env, now, fault, settings, feed, events, om, loops, fill, hist>>

\* ------------------------------------------------------------------------
\* Fill handling (orderManager.py, order_fill_callback) and the hedge
\* executor (connectors/bybit.py, on_Order_Fill)
\* ------------------------------------------------------------------------

IdleFill == [pc |-> "idle", i |-> 0, direction |-> 0, amount |-> 0, price |-> 0,
             size |-> 0, at |-> 0, sleep |-> 0]

\* execute_trade's limit price with_slippage(price, slippage, is_buy), as a
\* numerator over 1000: the worse price for the taker
with_slippage(price, is_buy) ==
    IF is_buy THEN price * (1000 + SlippagePerMille) ELSE price * (1000 - SlippagePerMille)

\* an executor that does not wait between attempts
hedge_wake_at_once(t) == t

\* await asyncio.sleep(delay) called at time t returns no earlier than t + delay
hedge_wake(t) == t + hedge_delay

\* a hedge size on the side of the maker order
hedge_size_same_side(amount, order_direction) == amount * order_direction

\* the size passed to on_Order_Fill: float(fillAmount) * order_direction * -1
hedge_size(amount, order_direction) == amount * order_direction * (-1)

\* a handler that leaves the cooldown anchor as it was
after_hedge_anchor_kept(o, f, avg_hedge_price, t) ==
    LET instant_pnl == IF f.direction = 1
                       THEN f.amount * (avg_hedge_price - f.price)
                       ELSE f.amount * (f.price - avg_hedge_price)
    IN  [o EXCEPT !.performance_data.orders_hedged = @ + 1,
                  !.performance_data.hedge_spread_pnl = @ + instant_pnl]

\* The rest of order_fill_callback once on_Order_Fill has returned
\* avg_hedge_price: the hedged counter, the spread P&L, the cooldown anchor
after_hedge(o, f, avg_hedge_price, t) ==
    LET instant_pnl == IF f.direction = 1
                       THEN f.amount * (avg_hedge_price - f.price)
                       ELSE f.amount * (f.price - avg_hedge_price)
    IN  [o EXCEPT !.performance_data.orders_hedged = @ + 1,
                  !.performance_data.hedge_spread_pnl = @ + instant_pnl,
                  !.last_order_fill_time = t]

\* An OrderMatched event for order `id` is delivered to order_fill_callback
FillCallback(id, amount, price) ==
    LET found == order_data_get(om.order_data, id, now)
        order == CHOOSE e \in found : TRUE
        order_direction == IF order.qty > 0 THEN 1 ELSE -1
        counted == [om EXCEPT !.performance_data.orders_filled = @ + 1,
                              !.performance_data.trade_volume_in_period = @ + amount,
                              !.performance_data.cumulative_trade_volume = @ + amount]
    IN
    /\ loops["fills"].pc = "subscribed"
    /\ fill.pc = "idle"
    /\ hist.fills < MaxFills
    /\ hist' = [hist EXCEPT !.fills = @ + 1]
    /\ IF found = {}
       THEN om' = counted /\ UNCHANGED fill
       ELSE IF settings.hedge_mode
       THEN /\ om' = counted
            /\ fill' = [pc |-> "hedging", i |-> 0,
                        direction |-> order_direction,
                        amount |-> amount, price |-> price,
                        size |-> hedge_size(amount, order_direction),
                        at |-> now, sleep |-> 0]
       ELSE /\ om' = [counted EXCEPT !.last_order_fill_time = now]
            /\ UNCHANGED fill
    /\ UNCHANGED <<ladder, env, now, fault, settings, feed, events, loops, monitors>>

\* execute_trade returns an order id: on_Order_Fill breaks out of its loop and
\* returns final_avg_fill_price, which is never assigned after its initial 0
HedgeAccepted ==
    /\ fill.pc = "hedging"
    /\ om' = after_hedge(om, fill, 0, now)
    /\ fill' = IdleFill
    /\ UNCHANGED <<ladder, env, now, fault, settings, feed, events, loops, monitors, hist>>

\* execute_trade raises on attempt i (0-based): `if i == retries` is never
\* true for i in range(retries), so the executor sleeps `delay`
HedgeAttemptRaises ==
    /\ fill.pc = "hedging"
    /\ fill' = [fill EXCEPT !.pc = "hedge_sleep", !.sleep = hedge_wake(now)]
    /\ UNCHANGED <<ladder, env, now, fault, settings, feed, events, om, loops, monitors, hist>>

\* The executor's sleep returns: the next attempt, or the end of the loop,
\* where on_Order_Fill returns final_avg_fill_price = 0 without raising
HedgeSleepReturns ==
    /\ fill.pc = "hedge_sleep"
    /\ now >= fill.sleep
    /\ IF fill.i + 1 < hedge_retries
       THEN /\ fill' = [fill EXCEPT !.pc = "hedging", !.i = @ + 1, !.at = now]
            /\ UNCHANGED om
       ELSE /\ om' = after_hedge(om, fill, 0, now)
            /\ fill' = IdleFill
    /\ UNCHANGED <<ladder, env, now, fault, settings, feed, events, loops, monitors, hist>>

\* ------------------------------------------------------------------------
\* Inputs offered by the environment
\* ------------------------------------------------------------------------

\* settings["order_levels"] of the running system
SystemLevels == <<[qty |-> 3, spread |-> 10]>>

QuietSettings ==
    [hedge_mode |-> FALSE, avoid_crossing |-> FALSE,
     cancel_orders_on_price_change |-> FALSE, order_levels |-> SystemLevels]
SettingsSet ==
    {QuietSettings,
     [QuietSettings EXCEPT !.cancel_orders_on_price_change = TRUE],
     [QuietSettings EXCEPT !.hedge_mode = TRUE, !.avoid_crossing = TRUE,
                           !.cancel_orders_on_price_change = TRUE]}

\* bookTicker messages <<b, a>>: mid prices 100 and 105
FuturesTicks == {<<99, 101>>, <<104, 106>>}

\* order-book messages of the maker venue
BookMessage1 == [bids |-> <<<<98, 1>>>>, asks |-> <<<<102, 1>>>>]
BookMessage2 == [bids |-> <<<<97, 0>>, <<96, 2>>>>, asks |-> <<<<103, 0>>, <<104, 1>>>>]
BookMessages == {BookMessage1, BookMessage2}

\* account snapshots: no position, a long position in this market
FlatSnapshot == [margin |-> 200, reservedMargin |-> 0, positions |-> <<>>]
LongSnapshot ==
    [margin |-> 200, reservedMargin |-> 0,
     positions |-> <<[market |-> "this", size |-> 2, notionalPosition |-> 20,
                      unrealisedProfit |-> 0]>>]
Snapshots == {FlatSnapshot, LongSnapshot}

\* can_open_position answers True for every size and price (bybit.py)
Approvals == {[buy |-> [i \in 1..Len(settings.order_levels) |-> TRUE],
               sell |-> [i \in 1..Len(settings.order_levels) |-> TRUE]]}

\* placement results: every order accepted
AcceptAll == {[k \in 1..Len(om.signed_orders) |-> TRUE]}
\* placement results: every order accepted, or every order rejected
UniformResults == {[k \in 1..Len(om.signed_orders) |-> b] : b \in BOOLEAN}
\* placement results: each order accepted or rejected on its own
AllResults == [1..Len(om.signed_orders) -> BOOLEAN]

\* fill notifications: the ids of placed orders and an id never placed (0)
FillIds == 0..(om.next_order_id - 1)

\* ------------------------------------------------------------------------
\* The running system: feeds up, time passing, fills and price moves
\* ------------------------------------------------------------------------

\* The order-generation loop with its gates: hedging and price-drift
\* cancellation are switched off, the feeds deliver, the clock runs, placed
\* orders are filled.
Init ==
    /\ ladder = NoLadder
    /\ env = [faulty |-> "none"]
    /\ SysInit(QuietSettings)

Next ==
    \/ Tick
    \/ FuturesConnect
    \/ \E tk \in {<<99, 101>>} : FuturesMessage(tk[1], tk[2])
    \/ \E msg \in {BookMessage1} : HubbleCallback(msg)
    \/ \E data \in {FlatSnapshot} : PositionsPollOk(data)
    \/ FillFeedSubscribe
    \/ \E approve \in Approvals : CreateOrdersRun(approve)
    \/ \E results \in UniformResults : PlaceOrdersReturn(results)
    \/ \E id \in FillIds : FillCallback(id, 2, 90)

Spec == Init /\ [][Next]_vars

\* ------------------------------------------------------------------------
\* The running system with price-drift cancellation switched on: every placed
\* batch gets a monitor, the mid price moves between 100 and 105
\* ------------------------------------------------------------------------

CancelSettings == [QuietSettings EXCEPT !.cancel_orders_on_price_change = TRUE]

InitMonitor ==
    /\ ladder = NoLadder
    /\ env = [faulty |-> "none"]
    /\ SysInit(CancelSettings)

NextMonitor ==
    \/ Tick
    \/ FuturesConnect
    \/ \E tk \in FuturesTicks : FuturesMessage(tk[1], tk[2])
    \/ \E msg \in {BookMessage1} : HubbleCallback(msg)
    \/ \E data \in {FlatSnapshot} : PositionsPollOk(data)
    \/ FillFeedSubscribe
    \/ Len(monitors) < MaxMonitors /\ \E approve \in Approvals : CreateOrdersRun(approve)
    \/ \E results \in AcceptAll : PlaceOrdersReturn(results)
    \/ \E k \in DOMAIN monitors : MonitorStart(k)
    \/ \E k \in DOMAIN monitors : MonitorWake(k)

SpecMonitor == InitMonitor /\ [][NextMonitor]_vars

\* ------------------------------------------------------------------------
\* The supervised loops with one unreliable service: the service named by
\* env.faulty may fail at every attempt, the others always succeed.  The clock
\* stands still, so no cycle is skipped for staleness or cooldown.
\* ------------------------------------------------------------------------

InitRetry ==
    /\ ladder = NoLadder
    /\ env \in {[faulty |-> l] : l \in LoopNames}
    /\ SysInit(QuietSettings)

NextRetry ==
    \/ FuturesConnect
    \/ \E tk \in {<<99, 101>>} : FuturesMessage(tk[1], tk[2])
    \/ env.faulty = "futures" /\ FuturesFail
    \/ \E msg \in {BookMessage1} : HubbleCallback(msg)
    \/ env.faulty = "hubble" /\ HubbleFail
    \/ HubbleResubscribe
    \/ \E data \in {FlatSnapshot} : PositionsPollOk(data)
    \/ env.faulty = "positions" /\ PositionsPollFail
    \/ FillFeedSubscribe
    \/ env.faulty = "fills" /\ FillFeedReturn
    \/ env.faulty = "fills" /\ FillFeedConnectionClosed
    \/ env.faulty = "fills" /\ FillFeedError
    \/ \E approve \in Approvals : CreateOrdersRun(approve)
    \/ \E results \in UniformResults : PlaceOrdersReturn(results)
    \/ env.faulty = "orders" /\ PlaceOrdersRaise

SpecRetry == InitRetry /\ [][NextRetry]_vars

\* ------------------------------------------------------------------------
\* The supervised loops with one service that breaks for good: until it
\* breaks the service named by env.faulty may fail or succeed, afterwards it
\* fails at every attempt.  The system keeps running while anything can run.
\* ------------------------------------------------------------------------

\* the service named l fails at every attempt
Broken(l) == env.faulty = l /\ env.broken

\* the loop has left its `while True`
Terminated(l) == loops[l].pc \in {"exhausted", "stopped"}

InitRetryFair ==
    /\ ladder = NoLadder
    /\ env \in {[faulty |-> l, broken |-> FALSE] : l \in LoopNames}
    /\ SysInit(QuietSettings)

\* From now on the unreliable service fails at every attempt
ServiceBreaks ==
    /\ ~env.broken
    /\ hist.batches < MaxBatches
    /\ env' = [env EXCEPT !.broken = TRUE]
    /\ UNCHANGED <<ladder, sysvars>>

FuturesConnectFair == ~Broken("futures") /\ FuturesConnect
FuturesMessageFair == \E tk \in {<<99, 101>>} : FuturesMessage(tk[1], tk[2])
FuturesFailFair == env.faulty = "futures" /\ FuturesFail
HubbleCallbackFair == ~Broken("hubble") /\ \E msg \in {BookMessage1} : HubbleCallback(msg)
HubbleFailFair == env.faulty = "hubble" /\ HubbleFail
PositionsPollOkFair == ~Broken("positions") /\ \E data \in {FlatSnapshot} : PositionsPollOk(data)
PositionsPollFailFair == env.faulty = "positions" /\ PositionsPollFail
FillFeedReturnFair == env.faulty = "fills" /\ ~env.broken /\ FillFeedReturn
FillFeedFailFair == env.faulty = "fills" /\ (FillFeedConnectionClosed \/ FillFeedError)
CreateOrdersRunFair == \E approve \in Approvals : CreateOrdersRun(approve)
PlaceOrdersReturnFair == ~Broken("orders") /\ \E results \in UniformResults : PlaceOrdersReturn(results)
PlaceOrdersRaiseFair == env.faulty = "orders" /\ PlaceOrdersRaise

NextRetryFair ==
    \/ ServiceBreaks
    \/ FuturesConnectFair
    \/ FuturesMessageFair
    \/ FuturesFailFair
    \/ HubbleCallbackFair
    \/ HubbleFailFair
    \/ HubbleResubscribe
    \/ PositionsPollOkFair
    \/ PositionsPollFailFair
    \/ FillFeedSubscribe
    \/ FillFeedReturnFair
    \/ FillFeedFailFair
    \/ CreateOrdersRunFair
    \/ PlaceOrdersReturnFair
    \/ PlaceOrdersRaiseFair

\* the steps of every task but create_orders
FeedsNextFair ==
    \/ FuturesConnectFair
    \/ FuturesMessageFair
    \/ FuturesFailFair
    \/ HubbleCallbackFair
    \/ HubbleFailFair
    \/ HubbleResubscribe
    \/ PositionsPollOkFair
    \/ PositionsPollFailFair
    \/ FillFeedSubscribe
    \/ FillFeedReturnFair
    \/ FillFeedFailFair
    \/ PlaceOrdersReturnFair
    \/ PlaceOrdersRaiseFair

\* states in which a run of the create_orders task changes the state: the task
\* has not yet slept in this cycle, or it sleeps with every gate open, both
\* maker feeds active and fresh data
OrdersReady ==
    /\ hist.batches < MaxBatches
    /\ \/ loops["orders"].pc \in
             {"start", "backoff", "released_mid", "released_hubble", "released_hedge"}
       \/ /\ loops["orders"].pc \in {"sleep5", "sleep_next"}
          /\ gate(loops["orders"].pc) = "pass"
          /\ om.is_order_fill_active /\ om.is_trader_position_feed_active
          /\ ~in_cooldown(now, om.last_order_fill_time)
          /\ ~is_stale_data(now, feed.mid_price_last_updated_at, mid_price_expiry,
                            om.trader_data_last_updated_at, position_data_expiry)

\* the event loop does not stop while a feed task is ready to run, a sleep is
\* due to return or a call on a service is due to end, and it runs the
\* create_orders task when that task stays ready
FairnessRetry ==
    /\ WF_vars(FeedsNextFair)
    /\ []<>(~OrdersReady) \/ []<><<CreateOrdersRunFair>>_vars

SpecRetryFair == InitRetryFair /\ [][NextRetryFair]_vars /\ FairnessRetry

\* ------------------------------------------------------------------------
\* The running system with a changing maker order book: every depth message
\* carries up to MaxBookDepth entries per side, in any order, at least one of
\* them with a non-zero size
\* ------------------------------------------------------------------------

BookBidPrices == {96, 98}
BookAskPrices == {102, 104}

\* the entry lists [price, size] of one side of a message
BookSides(prices) ==
    {side \in UNION {[1..n -> prices \X {0, 1}] : n \in 1..MaxBookDepth} :
        \E k \in DOMAIN side : side[k][2] # 0}

BookMessageSet ==
    {[bids |-> b, asks |-> a] : b \in BookSides(BookBidPrices), a \in BookSides(BookAskPrices)}

InitBook ==
    /\ ladder = NoLadder
    /\ env = [faulty |-> "none"]
    /\ SysInit(QuietSettings)

NextBook ==
    \/ FuturesConnect
    \/ \E tk \in {<<99, 101>>} : FuturesMessage(tk[1], tk[2])
    \/ \E msg \in BookMessageSet : HubbleCallback(msg)
    \/ \E data \in {FlatSnapshot} : PositionsPollOk(data)
    \/ FillFeedSubscribe
    \/ \E approve \in Approvals : CreateOrdersRun(approve)
    \/ \E results \in AcceptAll : PlaceOrdersReturn(results)

SpecBook == InitBook /\ [][NextBook]_vars

\* ------------------------------------------------------------------------
\* The running system with both mid-price feeds: trade messages and
\* bookTicker messages write the same mid price
\* ------------------------------------------------------------------------

\* prices of trade messages, in ticks
SpotPrices == {100, 105}

InitSpot ==
    /\ ladder = NoLadder
    /\ env = [faulty |-> "none"]
    /\ SysInit(QuietSettings)

NextSpot ==
    \/ \E price \in SpotPrices : SpotMessage(price)
    \/ SpotRecvFail
    \/ FuturesConnect
    \/ \E tk \in {<<99, 101>>} : FuturesMessage(tk[1], tk[2])
    \/ \E msg \in {BookMessage1} : HubbleCallback(msg)
    \/ \E data \in {FlatSnapshot} : PositionsPollOk(data)
    \/ FillFeedSubscribe
    \/ \E approve \in Approvals : CreateOrdersRun(approve)
    \/ \E results \in AcceptAll : PlaceOrdersReturn(results)

SpecSpot == InitSpot /\ [][NextSpot]_vars

\* ------------------------------------------------------------------------
\* The running system with fills, with hedging switched on or off: batches of
\* one buy and one sell order are placed, fill notifications arrive for placed
\* orders and for an id that was never placed, the hedge venue accepts or
\* refuses the hedge order.  The feeds and the poll deliver in the first
\* second only; afterwards time passes while fills are handled
\* ------------------------------------------------------------------------

HedgeSettings == [QuietSettings EXCEPT !.hedge_mode = TRUE]

\* an account snapshot with margin for an order on either side
RichSnapshot == [margin |-> 400, reservedMargin |-> 0, positions |-> <<>>]

\* fill notifications: amount and price
FillAmounts == {2}
FillPrices == {90}

\* seconds that pass while fills are handled
MaxHedgeTime == 4

\* One second passes while the hedge executor runs or sleeps
HedgeTick ==
    /\ now < StartTime + MaxHedgeTime
    /\ now' = now + 1
    /\ UNCHANGED <<ladder, env, fault, settings, feed, events, om, loops, monitors, fill, hist>>

InitHedge ==
    /\ ladder = NoLadder
    /\ env = [faulty |-> "none"]
    /\ \E st \in {QuietSettings, HedgeSettings} : SysInit(st)

NextHedge ==
    \/ HedgeTick
    \/ FuturesConnect
    \/ now = StartTime /\ \E tk \in {<<99, 101>>} : FuturesMessage(tk[1], tk[2])
    \/ now = StartTime /\ \E msg \in {BookMessage1} : HubbleCallback(msg)
    \/ now = StartTime /\ \E data \in {RichSnapshot} : PositionsPollOk(data)
    \/ FillFeedSubscribe
    \/ HedgeStateOk
    \/ \E approve \in Approvals : CreateOrdersRun(approve)
    \/ \E results \in AcceptAll : PlaceOrdersReturn(results)
    \/ \E id \in FillIds, amount \in FillAmounts, price \in FillPrices :
          FillCallback(id, amount, price)
    \/ HedgeAccepted
    \/ HedgeAttemptRaises
    \/ HedgeSleepReturns

SpecHedge == InitHedge /\ [][NextHedge]_vars

\* ------------------------------------------------------------------------
\* The running system with a deep ladder: every cycle places one buy and one
\* sell order per level, all accepted
\* ------------------------------------------------------------------------

\* levels of the deep ladder
DeepLevels == 33

TableSettings ==
    [QuietSettings EXCEPT !.order_levels = [i \in 1..DeepLevels |-> [qty |-> 2, spread |-> 10]]]

\* an account snapshot with margin for every level on either side
DeepSnapshot == [margin |-> 400 * DeepLevels, reservedMargin |-> 0, positions |-> <<>>]

InitTable ==
    /\ ladder = NoLadder
    /\ env = [faulty |-> "none"]
    /\ SysInit(TableSettings)

NextTable ==
    \/ Tick
    \/ FuturesConnect
    \/ \E tk \in {<<99, 101>>} : FuturesMessage(tk[1], tk[2])
    \/ \E msg \in {BookMessage1} : HubbleCallback(msg)
    \/ \E data \in {DeepSnapshot} : PositionsPollOk(data)
    \/ FillFeedSubscribe
    \/ \E approve \in Approvals : CreateOrdersRun(approve)
    \/ \E results \in AcceptAll : PlaceOrdersReturn(results)

SpecTable == InitTable /\ [][NextTable]_vars

\* ------------------------------------------------------------------------
\* The running system with placement results of every kind: each order of a
\* batch of one buy and one sell is accepted or rejected on its own, and the
\* performance recorder flushes the counters at any time
\* ------------------------------------------------------------------------

InitPlacement ==
    /\ ladder = NoLadder
    /\ env = [faulty |-> "none"]
    /\ SysInit(QuietSettings)

NextPlacement ==
    \/ Tick
    \/ FuturesConnect
    \/ \E tk \in {<<99, 101>>} : FuturesMessage(tk[1], tk[2])
    \/ \E msg \in {BookMessage1} : HubbleCallback(msg)
    \/ \E data \in {RichSnapshot} : PositionsPollOk(data)
    \/ FillFeedSubscribe
    \/ \E approve \in Approvals : CreateOrdersRun(approve)
    \/ \E results \in AllResults : PlaceOrdersReturn(results)
    \/ SavePerformance

SpecPlacement == InitPlacement /\ [][NextPlacement]_vars

\* ------------------------------------------------------------------------
\* The running system with cancellation on or off, a moving mid price and
\* placement results of every kind: the start of the cancellation monitors
\* ------------------------------------------------------------------------

InitMonitorStart ==
    /\ ladder = NoLadder
    /\ env = [faulty |-> "none"]
    /\ \E st \in {QuietSettings, CancelSettings} : SysInit(st)

NextMonitorStart ==
    \/ FuturesConnect
    \/ \E tk \in FuturesTicks : FuturesMessage(tk[1], tk[2])
    \/ \E msg \in {BookMessage1} : HubbleCallback(msg)
    \/ \E data \in {RichSnapshot} : PositionsPollOk(data)
    \/ FillFeedSubscribe
    \/ Len(monitors) < MaxMonitors /\ \E approve \in Approvals : CreateOrdersRun(approve)
    \/ \E results \in AllResults : PlaceOrdersReturn(results)

SpecMonitorStart == InitMonitorStart /\ [][NextMonitorStart]_vars

\* A run of the create_orders task that gets as far as the staleness check:
\* the gates pass, both maker feeds are active, the cooldown is over
ReachesStaleCheck ==
    /\ \E approve \in Approvals : CreateOrdersRun(approve)
    /\ gate(loops["orders"].pc) = "pass"
    /\ om.is_order_fill_active /\ om.is_trader_position_feed_active
    /\ now - om.last_order_fill_time >= order_fill_cooldown

\* C3: a generation cycle that finds the mid price older than mid_price_expiry
\* or the position snapshot older than position_data_expiry at the staleness
\* check computes no margin and no ladder, makes no placement call, goes to the
\* sleep until the next cycle and leaves the fault signal as it was.
C3_StaleCycleSkips ==
    [][(/\ ReachesStaleCheck
        /\ \/ now - feed.mid_price_last_updated_at > mid_price_expiry
           \/ now - om.trader_data_last_updated_at > position_data_expiry)
       => /\ loops'["orders"].pc = "sleep_next"
          /\ om'.signed_orders = <<>>
          /\ om'.market_position = om.market_position
          /\ hist'.cycle = "stale"
          /\ hist'.gen_mid = hist.gen_mid
          /\ fault' = fault]_vars

\* a cycle was skipped at the staleness check, with the mid price fresh and
\* the position snapshot too old
C3_Witness ==
    /\ hist.cycle = "stale"
    /\ loops["orders"].pc = "sleep_next"
    /\ now - om.mid_price_last_updated_at <= mid_price_expiry
    /\ now - om.trader_data_last_updated_at > position_data_expiry
    /\ ~fault

\* C4: whenever the create_orders task makes a placement call, the time since
\* the fill time recorded at that moment is at least order_fill_cooldown.
C4_NoPlacementInCooldown ==
    [][(loops["orders"].pc # "placing" /\ loops'["orders"].pc = "placing")
       => now - om.last_order_fill_time >= order_fill_cooldown]_vars

\* a placement call is in progress that was made after a fill had been recorded
C4_Witness ==
    /\ loops["orders"].pc = "placing"
    /\ hist.last_fill_at_call >= StartTime

\* C5: a step in which a cancellation monitor issues the cancel for its batch
\* is taken at a time no later than the batch's expiry.
C5_NoCancelAfterExpiry ==
    [][\A k \in DOMAIN monitors :
          monitors'[k].cancels > monitors[k].cancels
              => now <= monitors[k].expiry_time]_vars

\* C6: the monitor of a batch has issued at most one cancel, and once it has
\* issued it the monitor is finished, whatever notifications arrive later.
C6_CancelAtMostOnce ==
    \A k \in DOMAIN monitors :
        /\ monitors[k].cancels <= 1
        /\ monitors[k].cancels = 1 => monitors[k].pc = "done"

\* a monitor has cancelled its batch and a later price update was notified
C6_Witness ==
    \E k \in DOMAIN monitors :
        monitors[k].cancels = 1 /\ monitors[k].notified_after_cancel

\* C7: a step in which a monitor issues a cancel reads a mid price whose
\* distance from the mid price the batch was generated from is at least
\* cancellation_threshold percent of the latter, and the mid price the monitor
\* holds is the one the batch was generated from.
C7_CancelOnlyOnDrift ==
    [][\A k \in DOMAIN monitors :
          monitors'[k].cancels > monitors[k].cancels
              => /\ monitors[k].gen_mid > 0
                 /\ monitors[k].mid_price = monitors[k].gen_mid
                 /\ Abs((feed.mid_price - monitors[k].gen_mid) * 100)
                        >= cancellation_threshold * monitors[k].gen_mid]_vars

\* a batch generated at a mid price of 100 has been cancelled with the mid
\* price at 105
C7_Witness ==
    \E k \in DOMAIN monitors :
        /\ monitors[k].cancels = 1
        /\ monitors[k].gen_mid = 100
        /\ feed.mid_price = 105

\* ------------------------------------------------------------------------
\* The ladder generator on its own
\* ------------------------------------------------------------------------

\* level["qty"]: 0, below the minimum, not a multiple of it, a multiple of it
LevelQtys == {0, 1, 3, 4}
LevelSet == [qty : LevelQtys, spread : {1, 10}]
LevelConfigs == UNION {[1..n -> LevelSet] : n \in 1..MaxLevels}
SkewSet == {[num |-> 0, den |-> 1], [num |-> 25, den |-> 2]}
LadderMargins == {-8, 0, 72, 400}
LadderMids == {10, 25}
\* [best_ask, best_bid] as stored by the price feed
LadderBooks == {<<Infinity, 0>>, <<9, 8>>, <<27, 26>>}

LadderInit ==
    \E lv \in LevelConfigs, m \in LadderMargins, mid \in LadderMids,
       sk \in SkewSet, hp \in LadderBooks, av \in BOOLEAN :
        ladder = [phase |-> "input",
                  c |-> [order_levels |-> lv, mid_price |-> mid, skew |-> sk,
                         hubble_prices |-> hp, avoid_crossing |-> av,
                         hedge |-> FALSE, approve |-> <<>>],
                  margin |-> m, side |-> "none", orders |-> <<>>, am |-> m]
    /\ env = [faulty |-> "none"]
    /\ SysInit(QuietSettings)

\* generate_buy_orders called with the side's margin
GenerateBuy ==
    /\ ladder.phase = "input"
    /\ \E hedge \in BOOLEAN :
       \E approve \in [1..Len(ladder.c.order_levels) -> BOOLEAN] :
        LET c == [ladder.c EXCEPT !.hedge = hedge, !.approve = approve]
            r == generate_buy_orders(c, ladder.margin)
        IN  /\ hedge \/ (\A i \in DOMAIN approve : approve[i])
            /\ ladder' = [ladder EXCEPT !.phase = "done", !.c = c, !.side = "buy",
                                        !.orders = r.orders, !.am = r.am]
    /\ UNCHANGED <<env, sysvars>>

\* generate_sell_orders called with the side's margin
GenerateSell ==
    /\ ladder.phase = "input"
    /\ \E hedge \in BOOLEAN :
       \E approve \in [1..Len(ladder.c.order_levels) -> BOOLEAN] :
        LET c == [ladder.c EXCEPT !.hedge = hedge, !.approve = approve]
            r == generate_sell_orders(c, ladder.margin)
        IN  /\ hedge \/ (\A i \in DOMAIN approve : approve[i])
            /\ ladder' = [ladder EXCEPT !.phase = "done", !.c = c, !.side = "sell",
                                        !.orders = r.orders, !.am = r.am]
    /\ UNCHANGED <<env, sysvars>>

LadderNext == GenerateBuy \/ GenerateSell

SpecLadder == LadderInit /\ [][LadderNext]_vars

\* ------------------------------------------------------------------------
\* The margin and skew calculator on its own: it is called for one account
\* snapshot after another, self.market_position carried from call to call
\* ------------------------------------------------------------------------

\* positions per account snapshot
MaxPositions == 2
\* calls of the calculator per run
MaxSkewCalls == 2

SkewPositions ==
    {[market |-> "this", size |-> 2, notionalPosition |-> 100, unrealisedProfit |-> 0],
     [market |-> "this", size |-> -2, notionalPosition |-> 100, unrealisedProfit |-> 0],
     [market |-> "this", size |-> 0, notionalPosition |-> 0, unrealisedProfit |-> 0],
     [market |-> "other", size |-> 1, notionalPosition |-> 10, unrealisedProfit |-> 0]}
SkewMargins == {200, 550, 1000}
SkewSnapshots ==
    [margin : SkewMargins, reservedMargin : {0},
     positions : UNION {[1..n -> SkewPositions] : n \in 0..MaxPositions}]

SkewInit ==
    /\ ladder = [phase |-> "input", calls |-> 0, trader_data |-> FlatSnapshot,
                 market_position |-> NoPosition,
                 result |-> get_free_margin_and_defensive_skew(FlatSnapshot, NoPosition)]
    /\ env = [faulty |-> "none"]
    /\ SysInit(QuietSettings)

\* get_free_margin_and_defensive_skew called with self.trader_data = data
ComputeSkew(data) ==
    LET r == get_free_margin_and_defensive_skew(data, ladder.market_position)
    IN  /\ ladder.calls < MaxSkewCalls
        /\ ladder' = [phase |-> "done", calls |-> ladder.calls + 1, trader_data |-> data,
                      market_position |-> r.market_position, result |-> r]
        /\ UNCHANGED <<env, sysvars>>

SkewNext == \E data \in SkewSnapshots : ComputeSkew(data)

SpecSkew == SkewInit /\ [][SkewNext]_vars

\* C1: for every side, the sum over the emitted orders of |quantity| * price /
\* leverage never exceeds the margin allotted to that side (both sides of the
\* inequality multiplied by MarginDen; a negative allotment counts as zero).
C1_MarginNeverExceeded ==
    ladder.phase = "done" =>
        SumCost(ladder.orders) * ShareDen <= (IF ladder.margin > 0 THEN ladder.margin ELSE 0)

\* C2: every emitted order has MinQty <= |quantity| <= level.quantity.
C2_QtyWithinBounds ==
    ladder.phase = "done" =>
        \A k \in DOMAIN ladder.orders :
            LET o == ladder.orders[k]
            IN  /\ Abs(o.qty) >= MinQty
                /\ Abs(o.qty) <= ladder.c.order_levels[o.level].qty

\* the backoff sleeps of a loop with initial delay 2 that never succeeds
BackoffSequence == <<2, 4, 8, 16, 32>>

\* C8: in a loop with initial delay 2 that has failed at every attempt so far,
\* the backoff sleeps taken are the first sleeps of 2, 4, 8, 16, 32 in that
\* order and never more than these five; when the loop has terminated on its
\* budget it has slept all five and the fault signal is set.
C8_BackoffSequence ==
    \A l \in LoopNames :
        (LoopInitialDelay(l) = 2 /\ ~hist.retry[l].ok) =>
            LET sleeps == hist.retry[l].sleeps IN
            /\ Len(sleeps) <= Len(BackoffSequence)
            /\ sleeps = SubSeq(BackoffSequence, 1, Len(sleeps))
            /\ loops[l].pc = "exhausted" => (sleeps = BackoffSequence /\ fault)

\* the position poll has failed six times in a row and has terminated
C8_Witness ==
    /\ loops["positions"].pc = "exhausted"
    /\ ~hist.retry["positions"].ok
    /\ hist.retry["positions"].sleeps = BackoffSequence
    /\ fault

\* C9 as stated: a loop whose attempt counter is at max_retries has terminated
\* and the fault signal is set.
C9_StopsWhenCounterReachesMax ==
    \A l \in LoopNames :
        loops[l].attempt_count = max_retries => (loops[l].pc = "exhausted" /\ fault)

\* C9 amended: the attempt counter never exceeds max_retries; a loop terminates
\* on its budget only with the counter at max_retries and the fault signal set,
\* and a loop sleeping with the counter at max_retries sleeps the fifth delay
\* before one more attempt.
C9_StopsAtFailureAfterMax ==
    \A l \in LoopNames :
        /\ loops[l].attempt_count <= max_retries
        /\ loops[l].pc = "exhausted" => (loops[l].attempt_count = max_retries /\ fault)
        /\ (loops[l].pc = "backoff" /\ loops[l].attempt_count = max_retries)
              => loops[l].sleep = 16 * LoopInitialDelay(l)

\* a loop is making another attempt with its counter at max_retries
C9_Witness ==
    \E l \in LoopNames :
        /\ loops[l].attempt_count = max_retries
        /\ loops[l].pc \in {"start", "placing", "subscribed"}

\* C10: in the order-book, mid-price, position and generation loops, a loop
\* whose last attempt succeeded has its counter at 0 and its delay at the
\* initial delay, and the first sleep after a success is the initial delay.
C10_ResetOnSuccess ==
    \A l \in {"hubble", "futures", "positions", "orders"} :
        LET h == hist.retry[l] IN
        /\ (h.ok /\ h.sleeps = <<>>)
              => (loops[l].attempt_count = 0 /\ loops[l].retry_delay = LoopInitialDelay(l))
        /\ (h.ok /\ h.sleeps # <<>>) => h.sleeps[1] = LoopInitialDelay(l)

\* C11: once the unreliable service fails at every attempt, its loop
\* eventually terminates and the fault signal is set.
C11_EventuallyTerminates ==
    [](env.broken => <>(Terminated(env.faulty) /\ fault))

\* the generation loop has terminated on its budget after the placement
\* service broke, with the fault signal set
C11_Witness ==
    /\ Broken("orders")
    /\ loops["orders"].pc = "exhausted"
    /\ fault

\* C12: a run of the create_orders task that gets past its event waits finds
\* the mid-price event and the order-book event set, and the hedge-venue event
\* too when hedge_mode is on.
C12_AllSignalsSetAtGate ==
    [][(/\ \E approve \in Approvals : CreateOrdersRun(approve)
        /\ gate(loops["orders"].pc) = "pass")
       => /\ events.mid_price
          /\ events.hubble_price
          /\ settings.hedge_mode => events.hedge_client]_vars

\* C13: a step in which the order-book loop or the mid-price loop handles a
\* failure leaves that feed's readiness event cleared.
C13_FailureClearsSignal ==
    [][/\ HubbleFail => ~events'.hubble_price
       /\ FuturesFail => ~events'.mid_price]_vars

\* C14: a readiness event goes from cleared to set only in a step that
\* delivers a message of that feed.
C14_SignalSetOnlyByMessage ==
    [][/\ (~events.mid_price /\ events'.mid_price)
            => \E tk \in FuturesTicks : FuturesMessage(tk[1], tk[2])
       /\ (~events.hubble_price /\ events'.hubble_price)
            => \E msg \in BookMessages : HubbleCallback(msg)]_vars

\* C15: after a depth message has been processed the stored best ask is the
\* lowest price among the message's ask entries with a non-zero size and the
\* stored best bid is the highest price among its bid entries with a non-zero
\* size, whatever was stored before.
C15_BestPricesPerMessage ==
    [][\A msg \in BookMessageSet :
          HubbleCallback(msg)
              => feed'.hubble_prices = <<SetMin(NonZeroPrices(msg.asks)),
                                         SetMax(NonZeroPrices(msg.bids))>>]_vars

\* the stored mid price and its timestamp after a message carrying `mid` has
\* been handled as an update: both overwritten, every waiting monitor woken,
\* no failure handling in loop l
HandledAsUpdate(l, mid) ==
    /\ feed'.mid_price = mid
    /\ feed'.mid_price_last_updated_at = now
    /\ \A k \in DOMAIN monitors :
          monitors[k].pc = "waiting" => monitors'[k].pc = "woken"
    /\ loops'[l].attempt_count = loops[l].attempt_count
    /\ loops'[l].pc \notin {"backoff", "exhausted"}
    /\ fault' = fault

\* C16: a step that receives a bookTicker message or a trade message
\* overwrites the stored mid price and its timestamp, wakes every task waiting
\* on the mid-price condition and runs no failure handling.
C16_EveryUpdateStoredAndNotified ==
    [][/\ \A tk \in FuturesTicks :
            FuturesMessage(tk[1], tk[2]) => HandledAsUpdate("futures", futures_mid(tk[1], tk[2]))
       /\ \A price \in SpotPrices :
            SpotMessage(price) => HandledAsUpdate("spot", price)]_vars

\* the tracked orders a fill notification for `id` refers to
Tracked(id) == {e \in om.order_data : e.id = id /\ now < e.t + order_ttl}

\* a step that handles a fill notification for an order id that is not tracked
UnmatchedFill(id, amount, price) ==
    FillCallback(id, amount, price) /\ Tracked(id) = {}

\* a step that handles a fill notification for a tracked order
MatchedFill(id, amount, price) ==
    FillCallback(id, amount, price) /\ Tracked(id) # {}

\* C17: a fill notification for an order id that is not tracked starts no
\* hedge, leaves the fault signal as it was and changes no loop.
C17_UnmatchedFillDropped ==
    [][\A id \in FillIds, amount \in FillAmounts, price \in FillPrices :
          UnmatchedFill(id, amount, price)
              => /\ fill'.pc = "idle"
                 /\ fill' = fill
                 /\ fault' = fault
                 /\ loops' = loops]_vars

\* with hedging on and orders tracked, a fill for an unknown id has been
\* counted and dropped: nothing was hedged, no fill time recorded, no fault
C17_Witness ==
    /\ settings.hedge_mode
    /\ om.order_data # {}
    /\ om.performance_data.orders_filled = 1
    /\ om.performance_data.orders_hedged = 0
    /\ om.last_order_fill_time = 0
    /\ fill.pc = "idle"
    /\ ~fault

\* C18: a fill notification for an order id that is not tracked leaves every
\* performance counter unchanged.
C18_UnmatchedFillNotCounted ==
    [][\A id \in FillIds, amount \in FillAmounts, price \in FillPrices :
          UnmatchedFill(id, amount, price)
              => om'.performance_data = om.performance_data]_vars

\* C19: with hedge_mode on, the step that handles a fill for a tracked order
\* starts one call of the hedge executor with size -direction * amount and the
\* fill price, and no other step starts a call; with hedge_mode off no step
\* starts one.
C19_HedgeCalledOnceOppositeSide ==
    [][/\ \A id \in FillIds, amount \in FillAmounts, price \in FillPrices :
            MatchedFill(id, amount, price) =>
                LET order == CHOOSE e \in Tracked(id) : TRUE
                    direction == IF order.qty > 0 THEN 1 ELSE -1
                IN  IF settings.hedge_mode
                    THEN /\ fill'.pc = "hedging" /\ fill'.i = 0
                         /\ fill'.size = (-direction) * amount
                         /\ fill'.price = price
                    ELSE fill' = fill
       /\ (fill.pc = "idle" /\ fill'.pc # "idle")
            => /\ settings.hedge_mode
               /\ \E id \in FillIds, amount \in FillAmounts, price \in FillPrices :
                     MatchedFill(id, amount, price)
       /\ ~settings.hedge_mode => fill'.pc = "idle"]_vars

\* the fill of a maker sell order is being hedged with a positive size
C19_Witness ==
    /\ settings.hedge_mode
    /\ fill.pc = "hedging"
    /\ fill.direction = -1
    /\ fill.size = 2

\* C20: the step in which the last attempt of the hedge executor has failed
\* sets the fault signal and leaves the hedged counter as it was.
C20_HedgeFailurePropagates ==
    [][(/\ HedgeSleepReturns
        /\ fill.pc = "hedge_sleep"
        /\ fill.i + 1 >= hedge_retries)
       => /\ fault'
          /\ om'.performance_data.orders_hedged = om.performance_data.orders_hedged]_vars

\* C21: within one call of the hedge executor the attempts are numbered below
\* hedge_retries (at most 4 are made), an attempt after the first follows a
\* failed attempt no earlier than hedge_delay after it, and the step in which
\* an attempt returns an order id ends the call.
C21_AttemptsBoundedAndSpaced ==
    [][/\ fill'.pc = "hedging" => fill'.i < hedge_retries
       /\ (fill'.pc = "hedging" /\ fill.pc # "hedging")
            => \/ fill.pc = "idle" /\ fill'.i = 0
               \/ /\ fill.pc = "hedge_sleep"
                  /\ fill'.i = fill.i + 1
                  /\ now' >= fill.at + hedge_delay
       /\ (fill.pc = "hedging" /\ fill'.pc = "hedging") => fill'.i = fill.i
       /\ HedgeAccepted => fill'.pc = "idle"]_vars

\* the fourth attempt is in progress, three waits after the first
C21_Witness ==
    /\ fill.pc = "hedging"
    /\ fill.i = hedge_retries - 1
    /\ fill.at = StartTime + 3 * hedge_delay

\* the step in which the hedge executor returns after its last attempt failed
HedgeGivesUp ==
    /\ HedgeSleepReturns
    /\ fill.pc = "hedge_sleep"
    /\ fill.i + 1 >= hedge_retries

\* C22: the step in which a hedge has failed sets the fault signal and leaves
\* the order-generation loop where it was, not terminated.
C22_HedgeFailureFaultsLoopRuns ==
    [][HedgeGivesUp
       => /\ fault'
          /\ loops'["orders"] = loops["orders"]
          /\ loops'["orders"].pc # "exhausted"]_vars

\* a step that finishes the handling of a fill of a tracked order
MatchedFillHandled ==
    \/ fill.pc # "idle" /\ fill'.pc = "idle"
    \/ /\ ~settings.hedge_mode
       /\ \E id \in FillIds, amount \in FillAmounts, price \in FillPrices :
             MatchedFill(id, amount, price)

\* C23: the step that finishes the handling of a matched fill, with hedging
\* off, after an accepted hedge or after a failed hedge, leaves
\* last_order_fill_time equal to the time of that step.
C23_AnchorIsHandlingEnd ==
    [][MatchedFillHandled => om'.last_order_fill_time = now']_vars

\* a hedge that failed on every attempt has ended four waits after the fill,
\* and the cooldown anchor is that time
C23_Witness ==
    /\ settings.hedge_mode
    /\ fill.pc = "idle"
    /\ hist.fills = 1
    /\ om.last_order_fill_time = StartTime + hedge_retries * hedge_delay

\* C24: the step in which a hedge order is accepted adds to hedge_spread_pnl
\* amount * (h - price) for a maker buy and amount * (price - h) for a maker
\* sell, h being the price of the accepted hedge order (compared times 1000).
C24_SpreadPnlUsesHedgePrice ==
    [][HedgeAccepted
       => LET h1000 == with_slippage(fill.price, fill.size > 0)
              delta == om'.performance_data.hedge_spread_pnl
                       - om.performance_data.hedge_spread_pnl
          IN  IF fill.direction = 1
              THEN delta * 1000 = fill.amount * (h1000 - fill.price * 1000)
              ELSE delta * 1000 = fill.amount * (fill.price * 1000 - h1000)]_vars

\* C25: after the step that handles a fill notification for a tracked order,
\* the placed-order table holds no entry for that order id.
C25_FilledOrderRemoved ==
    [][\A id \in FillIds, amount \in FillAmounts, price \in FillPrices :
          MatchedFill(id, amount, price)
              => {e \in om'.order_data : e.id = id} = {}]_vars

\* C26: the step that processes a placement result leaves exactly one entry
\* for every accepted order of the batch, and no step removes an entry whose
\* lifetime of order_expiry + 2 has not elapsed (no order is filled or
\* cancelled in these runs).
C26_PlacedOrdersTracked ==
    [][/\ \A results \in AcceptAll :
            PlaceOrdersReturn(results)
                => \A k \in 1..Len(om.signed_orders) :
                      Cardinality({e \in om'.order_data :
                                      e.id = om.next_order_id + k - 1}) = 1
       /\ \A e \in om.order_data : now' < e.t + order_ttl => e \in om'.order_data]_vars

\* C27: with avoid_crossing on, every emitted buy order is priced below the
\* stored best ask of the maker venue and every emitted sell order above its
\* stored best bid.
C27_NoCrossingWhenAvoiding ==
    (ladder.phase = "done" /\ ladder.c.avoid_crossing) =>
        \A k \in DOMAIN ladder.orders :
            LET o == ladder.orders[k]
            IN  /\ ladder.side = "buy" => o.price < ladder.c.hubble_prices[1]
                /\ ladder.side = "sell" => o.price > ladder.c.hubble_prices[2]

\* the positions of this market in a snapshot
OfThisMarket(positions) == {k \in DOMAIN positions : positions[k].market = "this"}

\* free_margin * Leverage of a snapshot
FreeMarginTimesLeverage(data) ==
    data.margin * Leverage - SumField(data.positions, "notionalPosition")
    + SumField(data.positions, "unrealisedProfit") * Leverage - data.reservedMargin * Leverage

\* the rational [num, den] equals n / d
RatEq(r, n, d) == r.num * d = n * r.den

\* C28: after a call of the calculator that did not raise, with a long position
\* in the snapshot skew_ask is 0 and skew_bid is
\* (notional / leverage / free_margin) * 10 * defensiveSkew / 100, with a short
\* position the other way round, and with no position of this market in the
\* snapshot, or one of size 0, both skews are 0 (skews compared in percent).
C28_SkewOnGrowingSideOnly ==
    (ladder.phase = "done" /\ ~ladder.result.raised) =>
        LET data == ladder.trader_data
            r == ladder.result
            mine == OfThisMarket(data.positions)
            fm == FreeMarginTimesLeverage(data)
            p == data.positions[CHOOSE k \in mine : \A j \in mine : j <= k]
            expected_num == p.notionalPosition * 10 * defensiveSkew
        IN  IF mine = {} THEN r.skew_ask.num = 0 /\ r.skew_bid.num = 0
            ELSE IF p.size > 0 THEN r.skew_ask.num = 0 /\ RatEq(r.skew_bid, expected_num, fm)
            ELSE IF p.size < 0 THEN r.skew_bid.num = 0 /\ RatEq(r.skew_ask, expected_num, fm)
            ELSE r.skew_ask.num = 0 /\ r.skew_bid.num = 0

\* C29: a step of the order-generation loop sets the fault signal only when
\* the loop gives up on its exhausted retry budget: not when it catches an
\* exception with budget left, records rejected orders or skips a cycle.
C29_FaultOnlyOnExhaustion ==
    [][(~fault /\ fault' /\ loops'["orders"] # loops["orders"])
       => loops'["orders"].pc = "exhausted"]_vars

\* C30: the step in which a placement batch returns adds the number of results
\* to orders_attempted, the number of successes to orders_placed and the number
\* of rejections to orders_failed, and the entries it adds to the placed-order
\* table are those of the successful orders; after every step
\* orders_attempted = orders_placed + orders_failed.
C30_CountersAddUp ==
    [][/\ \A results \in AllResults :
            PlaceOrdersReturn(results) =>
                LET n == Len(om.signed_orders)
                    ok == {k \in 1..n : results[k]}
                    pd == om.performance_data
                    pd2 == om'.performance_data
                IN  /\ pd2.orders_attempted = pd.orders_attempted + n
                    /\ pd2.orders_placed = pd.orders_placed + Cardinality(ok)
                    /\ pd2.orders_failed = pd.orders_failed + n - Cardinality(ok)
                    /\ {e.id : e \in om'.order_data \ om.order_data}
                          = {om.next_order_id + k - 1 : k \in ok}
       /\ om'.performance_data.orders_attempted
            = om'.performance_data.orders_placed + om'.performance_data.orders_failed]_vars

\* a batch of two orders has returned with one accepted and one rejected
C30_Witness ==
    /\ om.performance_data.orders_attempted = 2
    /\ om.performance_data.orders_placed = 1
    /\ om.performance_data.orders_failed = 1
    /\ Cardinality(om.order_data) = 1

\* C31: the step that processes a batch in which an order was rejected leaves
\* the fault signal as it was, ends the cycle with the retry counter at 0 and
\* no backoff, and tracks every accepted order of the batch.
C31_RejectionNotEscalated ==
    [][\A results \in AllResults :
          (PlaceOrdersReturn(results) /\ \E k \in DOMAIN results : ~results[k])
              => /\ fault' = fault
                 /\ loops'["orders"].pc = "sleep_next"
                 /\ loops'["orders"].attempt_count = 0
                 /\ loops'["orders"].retry_delay = InitialDelay
                 /\ \A k \in DOMAIN results :
                       results[k] => \E e \in om'.order_data :
                                        e.id = om.next_order_id + k - 1]_vars

\* the first order of a batch was rejected and the second is tracked, with
\* the fault signal clear and the loop asleep until its next cycle
C31_Witness ==
    /\ om.performance_data.orders_failed = 1
    /\ \E e \in om.order_data : e.id = 2
    /\ ~\E e \in om.order_data : e.id = 1
    /\ ~fault
    /\ loops["orders"].pc = "sleep_next"

\* C32: the step that processes a placement result starts one monitor when
\* cancel_orders_on_price_change is on and an order of the batch was accepted,
\* and none otherwise; the monitor holds the ids of the accepted orders of the
\* batch and the mid price the batch was generated from; no other step starts
\* a monitor.
C32_MonitorStartedForPlacedBatch ==
    [][/\ \A results \in AllResults :
            PlaceOrdersReturn(results) =>
                LET ok == {k \in DOMAIN results : results[k]}
                    m == monitors'[Len(monitors')]
                IN  IF settings.cancel_orders_on_price_change /\ ok # {}
                    THEN /\ Len(monitors') = Len(monitors) + 1
                         /\ SubSeq(monitors', 1, Len(monitors)) = monitors
                         /\ m.orders = {om.next_order_id + k - 1 : k \in ok}
                         /\ m.mid_price = hist.gen_mid
                    ELSE monitors' = monitors
       /\ monitors' # monitors
            => \E results \in AllResults : PlaceOrdersReturn(results)]_vars

\* a monitor covers the second order of a batch whose first order was
\* rejected, and holds the mid price 100 of the generation while the feed has
\* moved to 105
C32_Witness ==
    /\ Len(monitors) = 1
    /\ monitors[1].orders = {2}
    /\ monitors[1].mid_price = 100
    /\ feed.mid_price = 105

RECURSIVE SpentBefore(_, _)
\* what the orders emitted for the levels before level i have taken from the
\* side's margin, as the loop books it (signed quantity)
SpentBefore(orders, i) ==
    IF orders = <<>> THEN 0
    ELSE (IF orders[1].level < i THEN orders[1].qty * orders[1].price * ShareDen ELSE 0)
         + SpentBefore(Tail(orders), i)

\* the quantity the loop computes for level i of the finished ladder run, from
\* the margin left by the orders emitted before it
QtyAtLevel(i) ==
    LET c == ladder.c
        level == c.order_levels[i]
        price == IF ladder.side = "buy" THEN rounded_bid_price(c, level)
                 ELSE rounded_ask_price(c, level)
        am == ladder.margin - SpentBefore(ladder.orders, i)
        q == get_qty(level, am * Leverage, price * MarginDen)
    IN  IF ladder.side = "buy" THEN q ELSE -q

\* C33: in a finished run of a side, no emitted order has quantity 0 or
\* belongs to a level the hedge check rejected; a level without an order is
\* one the hedge check rejected or whose quantity, computed from the margin
\* left by the orders emitted before it, is 0; every emitted order has the
\* quantity computed from that margin; and the margin left at the end is the
\* side's margin less what the emitted orders took.
C33_SkippedLevelLeavesMargin ==
    ladder.phase = "done" =>
        LET c == ladder.c
            emitted == {ladder.orders[k].level : k \in DOMAIN ladder.orders}
        IN  /\ \A k \in DOMAIN ladder.orders :
                  LET o == ladder.orders[k]
                  IN  /\ o.qty # 0
                      /\ ~(c.hedge /\ ~c.approve[o.level])
                      /\ o.qty = QtyAtLevel(o.level)
            /\ \A i \in DOMAIN c.order_levels :
                  i \notin emitted => (c.hedge /\ ~c.approve[i]) \/ QtyAtLevel(i) = 0
            /\ \A j, k \in DOMAIN ladder.orders :
                  j < k => ladder.orders[j].level < ladder.orders[k].level
            /\ ladder.am = ladder.margin
                             - SpentBefore(ladder.orders, Len(c.order_levels) + 1)

\* the hedge check rejected the first of two levels and the second level was
\* emitted with the whole quantity of 4 while the margin covers only one
\* such order
C33_Witness ==
    /\ ladder.phase = "done"
    /\ ladder.side = "buy"
    /\ Len(ladder.c.order_levels) = 2
    /\ ladder.c.hedge /\ ~ladder.c.approve[1] /\ ladder.c.approve[2]
    /\ ladder.c.order_levels[1].qty = 4
    /\ Len(ladder.orders) = 1
    /\ ladder.orders[1].level = 2
    /\ ladder.orders[1].qty = 4
    /\ ladder.am < 4 * ladder.orders[1].price * ShareDen

\* the ladder of both sides computed from the mid price, the maker top of
\* book and the position snapshot of the current state
LadderOfState ==
    LET fm == get_free_margin_and_defensive_skew(om.trader_data, om.market_position)
        all == [i \in 1..Len(settings.order_levels) |-> TRUE]
        c == [order_levels |-> settings.order_levels, mid_price |-> feed.mid_price,
              skew |-> NoSkew, hubble_prices |-> feed.hubble_prices,
              avoid_crossing |-> settings.avoid_crossing,
              hedge |-> settings.hedge_mode, approve |-> all]
        buys == buy_loop([c EXCEPT !.skew = fm.skew_bid],
                         [orders |-> <<>>, am |-> fm.margin_bid, raised |-> FALSE], 1)
        sells == sell_loop([c EXCEPT !.skew = fm.skew_ask],
                           [orders |-> <<>>, am |-> fm.margin_ask, raised |-> FALSE], 1)
    IN  buys.orders \o sells.orders

C35_ResultFromCurrentSnapshot ==
    (ladder.phase = "done" /\ OfThisMarket(ladder.trader_data.positions) = {}) =>
        LET r == ladder.result
            alloc == FreeMarginTimesLeverage(ladder.trader_data) * ShareNum
        IN  /\ ~r.raised
            /\ r.skew_ask.num = 0 /\ r.skew_bid.num = 0
            /\ r.margin_ask = alloc /\ r.margin_bid = alloc

\* C36: a step in which the generation loop makes a placement call is taken
\* while no fill is being hedged and no earlier than order_fill_cooldown
\* after the recorded fill time.
C36_NoPlacementDuringHedge ==
    [][(loops["orders"].pc # "placing" /\ loops'["orders"].pc = "placing")
       => /\ fill.pc = "idle"
          /\ now - om.last_order_fill_time >= order_fill_cooldown]_vars

\* the feeds the generation loop requires
RequiredFeeds == {"hubble", "futures", "positions", "fills"}

\* C37: in a state in which the retry loop of a required feed has terminated
\* on its exhausted budget, the generation loop makes no placement call.
C37_NoPlacementAfterFeedDeath ==
    [][(\E l \in RequiredFeeds : loops[l].pc = "exhausted")
       => ~(loops["orders"].pc # "placing" /\ loops'["orders"].pc = "placing")]_vars

\* C38: a step that increments orders_hedged is one in which an attempt of the
\* hedge executor returns an accepted order id, and afterwards orders_hedged
\* does not exceed orders_filled.
C38_HedgedCountsAcceptedOnly ==
    [][om'.performance_data.orders_hedged > om.performance_data.orders_hedged
       => /\ HedgeAccepted
          /\ fill.pc = "hedging"
          /\ om'.performance_data.orders_hedged <= om'.performance_data.orders_filled]_vars

\* a cycle of the generation loop that passes the gates and finds the fill
\* feed flag or the position feed flag down
InactiveCycle ==
    /\ \E approve \in Approvals : CreateOrdersRun(approve)
    /\ gate(loops["orders"].pc) = "pass"
    /\ ~om.is_order_fill_active \/ ~om.is_trader_position_feed_active

\* C39: a cycle that finds the fill feed flag or the position feed flag down
\* makes no placement call and generates nothing: the loop goes to its wait
\* before the next check, the manager's fields, the fault signal and the retry
\* counter are left as they were.
C39_InactiveFeedsSkipCycle ==
    [][InactiveCycle
       => /\ loops'["orders"].pc = "sleep5"
          /\ om' = om
          /\ fault' = fault
          /\ loops'["orders"].attempt_count = loops["orders"].attempt_count
          /\ hist'.cycle = "inactive"
          /\ hist'.gen_mid = hist.gen_mid]_vars

\* a cycle was skipped with the fill feed up and the position feed down, after
\* a poll had already delivered a snapshot
C39_Witness ==
    /\ hist.cycle = "inactive"
    /\ loops["orders"].pc = "sleep5"
    /\ om.is_order_fill_active
    /\ ~om.is_trader_position_feed_active
    /\ om.trader_data_last_updated_at > 0
    /\ ~fault

\* C40: no step takes the fault signal from set to clear.
C40_FaultSticky ==
    [][fault => fault']_vars

\* the fault signal set by the first failed cycle of the generation loop is
\* still set after the loop has failed a second time
C40_Witness ==
    /\ fault
    /\ loops["orders"].pc = "backoff"
    /\ loops["orders"].attempt_count = 2

====
